---- MODULE Spec2Model ----
(***************************************************************************)
(* Catalog harvesting engine of the Wolt/Bravo scrapers.                   *)
(*                                                                         *)
(* The model follows src/scripts/wolt_scraper_complete.py                  *)
(* (WoltComprehensiveScraper and its main()), and the category flatteners  *)
(* of src/wolt_complete_scraper.py and src/wolt_bravo_scraper.py.          *)
(*                                                                         *)
(* Strings that the code takes apart or joins (category names and paths)   *)
(* are sequences of one-character strings; opaque strings (slugs, category *)
(* ids, queries) are TLA+ strings; item ids are naturals, 0 standing for   *)
(* every falsy id (None, "", 0) of `if item_id:`.                          *)
(***************************************************************************)
EXTENDS Naturals, Sequences, FiniteSets

\* ------------------------------------------------------------------ bounds

\* nodes of a category document in the flattener specification
MaxNodes == 3
\* nodes of the category document of a harvest
MaxCats == 2
\* distinct truthy item ids the category endpoint can return
MaxId == 2
\* items of an enumerated (uncapped) response
MaxItems == 2
\* batches of WoltCompleteScraper's empty-query loop
MaxBatches == 3

\* ------------------------------------------------------- program constants

\* the page cap verify_completeness compares item_count with
PageCap == 500

\* the limit WoltCompleteScraper's batch loop asks for and compares len(items)
\* with
BatchLimit == 500

\* supplement_with_search's query list
search_queries == <<" ", "*", "a", "b", "c", "d", "e", "s", "m", "k">>

\* ------------------------------------------------------------ Python values

\* None in a field holding an opaque string (id, slug)
None == "<None>"
\* None in a field holding a character sequence (name, path)
NoneStr == <<"<None>">>
\* a key a dict does not have
Missing == "<missing>"

\* str(x) as an f-string formats it
Str(x) == IF x = NoneStr THEN <<"N", "o", "n", "e">> ELSE x

\* truthiness of a character-sequence value: None and "" are falsy
TruthyStr(x) == x # NoneStr /\ x # <<>>

\* s.count('/')
RECURSIVE CountSlash(_)
CountSlash(s) ==
    IF s = <<>> THEN 0
    ELSE (IF Head(s) = "/" THEN 1 ELSE 0) + CountSlash(Tail(s))

\* f"{parent_path}/{name}" if parent_path else name
JoinPath(parent_path, name) ==
    IF TruthyStr(parent_path) THEN Str(parent_path) \o <<"/">> \o Str(name) ELSE name

\* --------------------------------------------------- category documents

\* The nested document of the assortment endpoint, built from a parent array:
\* node c is a child of node par[c] < c (0: a root), siblings in index order.
\* A node's description carries its index, so that a record of the output can
\* be traced back to the node it was made from.
ChildrenOf(par, p) ==
    LET n == Len(par)
        RECURSIVE From(_)
        From(c) == IF c > n THEN <<>>
                   ELSE (IF par[c] = p THEN <<c>> ELSE <<>>) \o From(c + 1)
    IN From(1)

RECURSIVE BuildForest(_, _, _)
BuildForest(par, lab, p) ==
    LET kids == ChildrenOf(par, p)
    IN [k \in 1..Len(kids) |->
          [id |-> lab[kids[k]].id,
           name |-> lab[kids[k]].name,
           slug |-> lab[kids[k]].slug,
           description |-> kids[k],
           subcategories |-> BuildForest(par, lab, kids[k])]]

ParentArrays(n) == {par \in [1..n -> 0..n] : \A c \in 1..n : par[c] < c}

\* ------------------------------------------------------------- flatteners

\* _flatten_categories with result.append(cat_info) after the subcategories
RECURSIVE flatten_categories_postorder(_, _, _)
flatten_categories_postorder(categories, parent_path, level) ==
    IF categories = <<>> THEN <<>>
    ELSE LET cat == Head(categories)
             cat_info == [id |-> cat.id,
                          name |-> cat.name,
                          slug |-> cat.slug,
                          description |-> cat.description,
                          path |-> JoinPath(parent_path, cat.name),
                          level |-> level,
                          parent_path |-> parent_path,
                          has_subcategories |-> Len(cat.subcategories) > 0]
             subs == IF cat.subcategories # <<>>
                     THEN flatten_categories_postorder(cat.subcategories, cat_info.path,
                                                       level + 1)
                     ELSE <<>>
         IN subs \o <<cat_info>>
              \o flatten_categories_postorder(Tail(categories), parent_path, level)

\* _flatten_categories with `if not cat.get('name'): continue` at the head of
\* its loop
RECURSIVE flatten_categories_skip_nameless(_, _, _)
flatten_categories_skip_nameless(categories, parent_path, level) ==
    IF categories = <<>> THEN <<>>
    ELSE IF ~TruthyStr(Head(categories).name)
    THEN flatten_categories_skip_nameless(Tail(categories), parent_path, level)
    ELSE LET cat == Head(categories)
             cat_info == [id |-> cat.id,
                          name |-> cat.name,
                          slug |-> cat.slug,
                          description |-> cat.description,
                          path |-> JoinPath(parent_path, cat.name),
                          level |-> level,
                          parent_path |-> parent_path,
                          has_subcategories |-> Len(cat.subcategories) > 0]
             subs == IF cat.subcategories # <<>>
                     THEN flatten_categories_skip_nameless(cat.subcategories, cat_info.path,
                                                           level + 1)
                     ELSE <<>>
         IN <<cat_info>> \o subs
              \o flatten_categories_skip_nameless(Tail(categories), parent_path, level)

\* WoltComprehensiveScraper._flatten_categories
RECURSIVE flatten_categories(_, _, _)
flatten_categories(categories, parent_path, level) ==
    IF categories = <<>> THEN <<>>
    ELSE LET cat == Head(categories)
             cat_info == [id |-> cat.id,
                          name |-> cat.name,
                          slug |-> cat.slug,
                          description |-> cat.description,
                          path |-> JoinPath(parent_path, cat.name),
                          level |-> level,
                          parent_path |-> parent_path,
                          has_subcategories |-> Len(cat.subcategories) > 0]
             subs == IF cat.subcategories # <<>>
                     THEN flatten_categories(cat.subcategories, cat_info.path, level + 1)
                     ELSE <<>>
         IN <<cat_info>> \o subs \o flatten_categories(Tail(categories), parent_path, level)

\* WoltCompleteScraper._flatten_categories
RECURSIVE flatten_categories_complete(_, _, _)
flatten_categories_complete(categories, parent_path, level) ==
    IF categories = <<>> THEN <<>>
    ELSE LET cat == Head(categories)
             cat_info == [id |-> cat.id,
                          name |-> cat.name,
                          slug |-> cat.slug,
                          description |-> cat.description,
                          path |-> JoinPath(parent_path, cat.name),
                          level |-> level,
                          parent_path |-> parent_path]
             subs == IF cat.subcategories # <<>>
                     THEN flatten_categories_complete(cat.subcategories, cat_info.path, level + 1)
                     ELSE <<>>
         IN <<cat_info>> \o subs
              \o flatten_categories_complete(Tail(categories), parent_path, level)

\* d[k] = v on a Python dict held as a function
DictSet(d, k, v) == [x \in (DOMAIN d) \cup {k} |-> IF x = k THEN v ELSE d[x]]

\* the empty dict
EmptyDict == [x \in {} |-> x]

\* extract_all_categories skipping every category whose id self.category_map
\* already holds
RECURSIVE extract_all_categories_skip_known(_, _, _)
extract_all_categories_skip_known(categories, parent_path, cmap) ==
    IF categories = <<>> THEN [cats |-> <<>>, cmap |-> cmap, raised |-> FALSE]
    ELSE IF parent_path = NoneStr THEN [cats |-> <<>>, cmap |-> cmap, raised |-> TRUE]
    ELSE IF Head(categories).id \in DOMAIN cmap
    THEN extract_all_categories_skip_known(Tail(categories), parent_path, cmap)
    ELSE LET cat == Head(categories)
             cat_info == [id |-> cat.id,
                          name |-> cat.name,
                          slug |-> cat.slug,
                          description |-> cat.description,
                          path |-> JoinPath(parent_path, cat.name),
                          level |-> CountSlash(parent_path),
                          has_subcategories |-> Len(cat.subcategories) > 0]
             cmap1 == DictSet(cmap, cat_info.id, cat_info)
             subcats == IF cat.subcategories # <<>>
                        THEN extract_all_categories_skip_known(cat.subcategories,
                                                               cat_info.path, cmap1)
                        ELSE [cats |-> <<>>, cmap |-> cmap1, raised |-> FALSE]
             rest == extract_all_categories_skip_known(Tail(categories), parent_path,
                                                       subcats.cmap)
         IN IF subcats.raised
            THEN [cats |-> <<cat_info>> \o subcats.cats, cmap |-> subcats.cmap, raised |-> TRUE]
            ELSE [cats |-> <<cat_info>> \o subcats.cats \o rest.cats,
                  cmap |-> rest.cmap,
                  raised |-> rest.raised]

\* WoltBravoScraper.extract_all_categories, with the category_map it writes:
\* [cats: the list built, cmap: self.category_map, raised: an exception left it].
\* parent_path.count('/') raises AttributeError when parent_path is None, the
\* path of a root that has no name.
RECURSIVE extract_all_categories(_, _, _)
extract_all_categories(categories, parent_path, cmap) ==
    IF categories = <<>> THEN [cats |-> <<>>, cmap |-> cmap, raised |-> FALSE]
    ELSE IF parent_path = NoneStr THEN [cats |-> <<>>, cmap |-> cmap, raised |-> TRUE]
    ELSE LET cat == Head(categories)
             cat_info == [id |-> cat.id,
                          name |-> cat.name,
                          slug |-> cat.slug,
                          description |-> cat.description,
                          path |-> JoinPath(parent_path, cat.name),
                          level |-> CountSlash(parent_path),
                          has_subcategories |-> Len(cat.subcategories) > 0]
             cmap1 == DictSet(cmap, cat_info.id, cat_info)
             subcats == IF cat.subcategories # <<>>
                        THEN extract_all_categories(cat.subcategories, cat_info.path, cmap1)
                        ELSE [cats |-> <<>>, cmap |-> cmap1, raised |-> FALSE]
             rest == extract_all_categories(Tail(categories), parent_path, subcats.cmap)
         IN IF subcats.raised
            THEN [cats |-> <<cat_info>> \o subcats.cats, cmap |-> subcats.cmap, raised |-> TRUE]
            ELSE [cats |-> <<cat_info>> \o subcats.cats \o rest.cats,
                  cmap |-> rest.cmap,
                  raised |-> rest.raised]

\* --------------------------------------------------------------- responses

\* An item of response number req at position pos: its id and, as the rest of
\* its payload, the place it was sighted at (so two sightings of one id never
\* carry the same payload). Category annotations are absent until stamped.
MissingStr == <<"<missing>">>

RawItem(id, req, pos) ==
    [id |-> id, raw |-> <<req, pos>>, category_slug |-> Missing, category_name |-> MissingStr]

ItemsOf(ids, req) == [p \in 1..Len(ids) |-> RawItem(ids[p], req, p)]

\* id lists of the enumerated responses: ids 0..MaxId, at most MaxItems items
IdLists == UNION {[1..k -> 0..MaxId] : k \in 0..MaxItems}

\* a response page filled to the cap
CappedPage == [p \in 1..PageCap |-> 1]

\* what the category endpoint may answer
CategoryIdLists == IdLists \cup {CappedPage}

\* the id only the q-th search query can reveal
FreshId(q) == MaxId + q

\* what the search endpoint may answer to the q-th query: nothing, an item with
\* no id, the query's own id, or a product already stored (the oldest), alone
\* or behind the query's own id
SearchIdLists(q, store) ==
    {<<>>, <<0>>, <<FreshId(q)>>}
    \cup (IF store # <<>> THEN {<<store[1].key>>, <<FreshId(q), store[1].key>>} ELSE {})

\* outcomes of a network call
Outcomes == {"ok", "not_found", "http_error", "exception"}

\* the outcome as the specification classifies it
Classify(outcome) ==
    CASE outcome = "ok" -> "Success"
      [] outcome = "not_found" -> "EmptyNotFound"
      [] OTHER -> "TransportError"

\* ------------------------------------------------------------ product store

\* self.all_products: a dict in insertion order, held as a sequence of
\* [key, val] entries
StoreKeys(store) == {store[p].key : p \in 1..Len(store)}

\* item_id in self.all_products
HasKey(store, k) == k \in StoreKeys(store)

\* self.all_products[k] = v
StoreSet(store, k, v) ==
    IF HasKey(store, k)
    THEN [p \in 1..Len(store) |-> IF store[p].key = k THEN [key |-> k, val |-> v] ELSE store[p]]
    ELSE Append(store, [key |-> k, val |-> v])

\* if item_id:
Truthy(id) == id # 0

\* MergeItem with the products kept in a list and no membership test
MergeItem_NoDedup(acc, item) ==
    IF Truthy(item.id)
    THEN [store |-> Append(acc.store, [key |-> item.id, val |-> item]), new |-> acc.new + 1]
    ELSE acc

\* MergeItem without `if item_id not in self.all_products`
MergeItem_Overwrite(acc, item) ==
    IF Truthy(item.id)
    THEN [store |-> StoreSet(acc.store, item.id, item), new |-> acc.new + 1]
    ELSE acc

\* MergeItem with new_items += 1 one level out, under `if item_id:` only
MergeItem_CountAll(acc, item) ==
    IF Truthy(item.id)
    THEN IF ~HasKey(acc.store, item.id)
         THEN [store |-> StoreSet(acc.store, item.id, item), new |-> acc.new + 1]
         ELSE [store |-> acc.store, new |-> acc.new + 1]
    ELSE acc

\* MergeItem without `if item_id:`
MergeItem_NoIdTest(acc, item) ==
    IF ~HasKey(acc.store, item.id)
    THEN [store |-> StoreSet(acc.store, item.id, item), new |-> acc.new + 1]
    ELSE acc

\* one turn of the category pass's inner loop on acc = [store, new]
MergeItem(acc, item) ==
    IF Truthy(item.id)
    THEN IF ~HasKey(acc.store, item.id)
         THEN [store |-> StoreSet(acc.store, item.id, item), new |-> acc.new + 1]
         ELSE acc
    ELSE acc

\* the inner loop of the category pass over items[lo..hi], in order, from acc
\* (the range is halved so that a page of PageCap items nests only a few calls)
RECURSIVE MergeItems(_, _, _, _)
MergeItems(acc, its, lo, hi) ==
    IF lo > hi THEN acc
    ELSE IF lo = hi THEN MergeItem(acc, its[lo])
    ELSE LET mid == (lo + hi) \div 2
             left == MergeItems(acc, its, lo, mid)
         IN IF left.new >= 0 THEN MergeItems(left, its, mid + 1, hi) ELSE left

\* SearchMergeItem counting a new item without storing it
SearchMergeItem_CountOnly(acc, item) ==
    IF Truthy(item.id) /\ ~HasKey(acc.store, item.id)
    THEN [store |-> acc.store, new |-> acc.new + 1]
    ELSE acc

\* one turn of supplement_with_search's inner loop
SearchMergeItem(acc, item) ==
    IF Truthy(item.id) /\ ~HasKey(acc.store, item.id)
    THEN [store |-> StoreSet(acc.store, item.id, item), new |-> acc.new + 1]
    ELSE acc

\* the inner loop of supplement_with_search over items[lo..hi], in order, from acc
RECURSIVE SearchMergeItems(_, _, _, _)
SearchMergeItems(acc, its, lo, hi) ==
    IF lo > hi THEN acc
    ELSE IF lo = hi THEN SearchMergeItem(acc, its[lo])
    ELSE LET mid == (lo + hi) \div 2
             left == SearchMergeItems(acc, its, lo, mid)
         IN IF left.new >= 0 THEN SearchMergeItems(left, its, mid + 1, hi) ELSE left

\* the category pass's merge of a fetched list: new_items = 0, then the loop
merge_category(store, its) == MergeItems([store |-> store, new |-> 0], its, 1, Len(its))

\* supplement_with_search's merge of a query's list
merge_search(store, its) == SearchMergeItems([store |-> store, new |-> 0], its, 1, Len(its))

\* get_category_items without the loop that annotates the items
category_items_unstamped(outcome, its, category_slug, category_name) ==
    IF outcome = "ok" THEN its ELSE <<>>

\* get_category_items: the list it returns for an outcome and a response body
category_items(outcome, its, category_slug, category_name) ==
    IF outcome = "ok"
    THEN [p \in 1..Len(its) |->
            [its[p] EXCEPT !.category_slug = category_slug,
                           !.category_name = category_name]]
    ELSE <<>>

\* fetch_raises with a bare `raise` after the HTTP error message
fetch_raises_http(outcome) == outcome = "http_error"

\* get_category_items: whether the exception of an outcome leaves it (both
\* except clauses return [])
fetch_raises(outcome) == FALSE

\* search_items: the list it returns
search_items(outcome, its) == IF outcome = "ok" THEN its ELSE <<>>

\* -------------------------------------------------------------------- state

VARIABLES
    tree,                  \* the category document the assortment endpoint serves
    parent_of,             \* history: the parent array the document was built from
    pc,                    \* where main() is
    all_categories,        \* self.all_categories
    all_products,          \* self.all_products
    category_stats,        \* self.category_stats
    i,                     \* scrape_all_products: the loop's position (from 1)
    items,                 \* the list the last fetch returned
    new_items,             \* new_items of the merge in progress
    total_requests,        \* scrape_all_products' counters
    successful_requests,
    categories_with_items,
    q,                     \* supplement_with_search: the query's position (from 1)
    initial_count,         \* supplement_with_search: initial_count
    large_categories,      \* verify_completeness: large_categories
    verdict,               \* verify_completeness: which of its two messages it printed
    saved,                 \* the files save_all_data has written, in order
    complete_categories,   \* WoltCompleteScraper.all_categories
    bravo_categories,      \* WoltBravoScraper.all_categories
    bravo_category_map,    \* WoltBravoScraper.category_map
    bravo_raised,          \* extract_all_categories left by an exception
    flattened,             \* the flatteners that have been applied to the document
    outcomes,              \* history: each category fetch: [index, slug, outcome, returned]
    first_sight,           \* history: id -> the place of its first sighting
    trace,                 \* history: the steps taken, <<kind, position>>
    sweep_outcomes,        \* history: each search query issued: [query, outcome]
    sweep_new,             \* history: new_items of each search query merged
    cpc,                   \* where WoltCompleteScraper's main() is
    batch_num,             \* WoltCompleteScraper.scrape_all_products: batch_num
    product_ids,           \* its set product_ids
    products_local,        \* its local list all_products
    citems,                \* the list its last search returned
    cj,                    \* its position in main_categories (from 1)
    complete_products,     \* WoltCompleteScraper.all_products
    complete_saved,        \* the files WoltCompleteScraper.save_all_data has written, in order
    ctrace,                \* history: its network calls and delays, in order
    tool,                  \* the analysis tool that is run
    self_products,         \* its self.products, as load_data read them
    normalized,            \* the list its normalize_products returned
    apc,                   \* where the analysis tool is
    inflight,              \* fan-out: the categories whose fetch is under way
    arrived,               \* fan-out: index -> the list its fetch returned
    merge_order,           \* fan-out: the categories merged, in the order of their merges
    new_total              \* fan-out: the sum of the new-item counts of the merges

vars == <<tree, parent_of, pc, all_categories, all_products, category_stats, i, items, new_items,
          total_requests, successful_requests, categories_with_items, q, initial_count,
          large_categories, verdict, saved, complete_categories, bravo_categories,
          bravo_category_map, bravo_raised, flattened, outcomes, first_sight, trace, sweep_outcomes,
          sweep_new, cpc, batch_num, product_ids, products_local, citems, cj, complete_products,
          complete_saved, ctrace, tool, self_products, normalized,
          apc, inflight, arrived, merge_order, new_total>>

document == <<tree, parent_of>>
scraper_vars == <<all_categories, all_products, category_stats>>
pass_vars == <<i, items, new_items, total_requests, successful_requests,
               categories_with_items>>
sweep_vars == <<q, initial_count>>
report_vars == <<large_categories, verdict, saved>>
complete_run == <<cpc, batch_num, product_ids, products_local, citems, cj, complete_products,
                  complete_saved, ctrace>>
analysis == <<tool, self_products, normalized, apc>>
fan_out == <<inflight, arrived, merge_order, new_total>>
other_scrapers == <<complete_categories, bravo_categories, bravo_category_map, bravo_raised,
                    flattened, complete_run, analysis, fan_out>>
history == <<outcomes, first_sight, trace, sweep_outcomes, sweep_new>>

\* labels of the nodes of a harvest's category document
HarvestLabels == [id : {None}, name : {NoneStr, <<"a">>}, slug : {"s1", "s2"}]

\* WoltComprehensiveScraper.__init__, and the document the venue serves
InitScraper ==
    /\ pc = "start"
    /\ all_categories = <<>>
    /\ all_products = <<>>
    /\ category_stats = EmptyDict
    /\ i = 0
    /\ items = <<>>
    /\ new_items = 0
    /\ total_requests = 0
    /\ successful_requests = 0
    /\ categories_with_items = 0
    /\ q = 0
    /\ initial_count = 0
    /\ large_categories = EmptyDict
    /\ verdict = "none"
    /\ saved = <<>>
    /\ complete_categories = <<>>
    /\ bravo_categories = <<>>
    /\ bravo_category_map = EmptyDict
    /\ bravo_raised = FALSE
    /\ flattened = {}
    /\ outcomes = <<>>
    /\ first_sight = EmptyDict
    /\ trace = <<>>
    /\ sweep_outcomes = <<>>
    /\ sweep_new = <<>>
    /\ cpc = "start"
    /\ batch_num = 0
    /\ product_ids = {}
    /\ products_local = <<>>
    /\ citems = <<>>
    /\ cj = 0
    /\ complete_products = <<>>
    /\ complete_saved = <<>>
    /\ ctrace = <<>>

\* no analysis tool is run
NoAnalysis ==
    /\ tool = "none"
    /\ self_products = <<>>
    /\ normalized = <<>>
    /\ apc = "idle"

\* no category fetch is fanned out
NoFanOut ==
    /\ inflight = {}
    /\ arrived = EmptyDict
    /\ merge_order = <<>>
    /\ new_total = 0

Init ==
    /\ \E n \in 0..MaxCats :
          \E par \in ParentArrays(n), lab \in [1..n -> HarvestLabels] :
             /\ parent_of = par
             /\ tree = BuildForest(par, lab, 0)
    /\ InitScraper
    /\ NoAnalysis
    /\ NoFanOut

\* the place of the first sighting of every id seen so far, after response req
Sighted(fs, ids, req) ==
    LET seen == {ids[p] : p \in 1..Len(ids)} \ {0}
        First(x) == CHOOSE p \in 1..Len(ids) :
                        ids[p] = x /\ \A r \in 1..(p - 1) : ids[r] # x
    IN [x \in (DOMAIN fs) \cup seen |-> IF x \in DOMAIN fs THEN fs[x] ELSE <<req, First(x)>>]

\* ------------------------------------------------------------------ actions

\* get_categories: the assortment request succeeds or fails
GetCategories ==
    /\ pc = "start"
    /\ \E outcome \in {"ok", "exception"} :
          all_categories' = IF outcome = "ok" THEN flatten_categories(tree, <<>>, 0)
                            ELSE all_categories
    /\ trace' = Append(trace, <<"get_categories", 0>>)
    /\ pc' = "main_check"
    /\ UNCHANGED <<document, all_products, category_stats, pass_vars, sweep_vars, report_vars,
                   other_scrapers, outcomes, first_sight, sweep_outcomes, sweep_new>>

\* MainCheck without the test of scraper.all_categories
MainCheck_NoReturn ==
    /\ pc = "main_check"
    /\ pc' = "scrape"
    /\ UNCHANGED <<document, scraper_vars, pass_vars, sweep_vars, report_vars, other_scrapers,
                   history>>

\* main: `if not scraper.all_categories: return`
MainCheck ==
    /\ pc = "main_check"
    /\ pc' = IF all_categories = <<>> THEN "exit_no_categories" ELSE "scrape"
    /\ UNCHANGED <<document, scraper_vars, pass_vars, sweep_vars, report_vars, other_scrapers,
                   history>>

\* scrape_all_products up to its loop
ScrapeStart ==
    /\ pc = "scrape"
    /\ IF all_categories = <<>>
       THEN /\ pc' = "sweep_start"
            /\ UNCHANGED <<i, total_requests, successful_requests, categories_with_items>>
       ELSE /\ pc' = "loop"
            /\ i' = 1
            /\ total_requests' = 0
            /\ successful_requests' = 0
            /\ categories_with_items' = 0
    /\ UNCHANGED <<document, scraper_vars, items, new_items, sweep_vars, report_vars,
                   other_scrapers, history>>

\* the head of the loop: the next category, its progress line (name[:60] raises
\* TypeError when name is None), and total_requests += 1
LoopHead ==
    /\ pc = "loop"
    /\ IF i > Len(all_categories)
       THEN /\ pc' = "summary"
            /\ UNCHANGED total_requests
       ELSE IF all_categories[i].name = NoneStr
       THEN /\ pc' = "crashed"
            /\ UNCHANGED total_requests
       ELSE /\ pc' = "fetch"
            /\ total_requests' = total_requests + 1
    /\ UNCHANGED <<document, scraper_vars, i, items, new_items, successful_requests,
                   categories_with_items, sweep_vars, report_vars, other_scrapers, history>>

\* items = self.get_category_items(slug, name)
GetCategoryItems ==
    /\ pc = "fetch"
    /\ \E outcome \in Outcomes, ids \in CategoryIdLists :
          /\ outcome # "ok" => ids = <<>>
          /\ items' = IF fetch_raises(outcome) THEN items
                       ELSE category_items(outcome, ItemsOf(ids, i),
                                           all_categories[i].slug, all_categories[i].name)
          /\ outcomes' = Append(outcomes, [index |-> i,
                                           slug |-> all_categories[i].slug,
                                           outcome |-> Classify(outcome),
                                           returned |-> Len(ids)])
          /\ first_sight' = Sighted(first_sight, ids, i)
          /\ pc' = IF fetch_raises(outcome) THEN "crashed" ELSE "merge"
    /\ trace' = Append(trace, <<"fetch", i>>)
    /\ UNCHANGED <<document, scraper_vars, i, new_items, total_requests, successful_requests,
                   categories_with_items, sweep_vars, report_vars, other_scrapers, sweep_outcomes,
                   sweep_new>>

\* HasItems with the test dropped
HasItems_Always(its) == TRUE

\* `if items:`
HasItems(its) == its # <<>>

\* a list back to front
Reversed(its) == [p \in 1..Len(its) |-> its[Len(its) + 1 - p]]

\* MergeCategory with the fetched items held in a set, iterated in one order
\* or the other
MergeCategory_AnyOrder ==
    /\ pc = "merge"
    /\ IF HasItems(items)
       THEN \E its \in {items, Reversed(items)} :
               LET merged == merge_category(all_products, its)
               IN /\ successful_requests' = successful_requests + 1
                  /\ categories_with_items' = categories_with_items + 1
                  /\ all_products' = merged.store
                  /\ new_items' = merged.new
                  /\ trace' = Append(trace, <<"merge", i>>)
                  /\ pc' = "stat"
       ELSE /\ pc' = "sleep"
            /\ UNCHANGED <<successful_requests, categories_with_items, all_products,
                           new_items, trace>>
    /\ UNCHANGED <<document, all_categories, category_stats, i, items, total_requests,
                   sweep_vars, report_vars, other_scrapers, outcomes, first_sight,
                   sweep_outcomes, sweep_new>>

\* `if items:` with the merge into self.all_products, or the (empty) branch
MergeCategory ==
    /\ pc = "merge"
    /\ IF HasItems(items)
       THEN LET merged == merge_category(all_products, items)
            IN /\ successful_requests' = successful_requests + 1
               /\ categories_with_items' = categories_with_items + 1
               /\ all_products' = merged.store
               /\ new_items' = merged.new
               /\ trace' = Append(trace, <<"merge", i>>)
               /\ pc' = "stat"
       ELSE /\ pc' = "sleep"
            /\ UNCHANGED <<successful_requests, categories_with_items, all_products,
                           new_items, trace>>
    /\ UNCHANGED <<document, all_categories, category_stats, i, items, total_requests,
                   sweep_vars, report_vars, other_scrapers, outcomes, first_sight,
                   sweep_outcomes, sweep_new>>

\* the stat self.category_stats[slug] is set to
category_stat(category, its, new) ==
    [name |-> category.name, path |-> category.path, item_count |-> Len(its),
     new_items |-> new]

\* self.category_stats[slug] = {...}
RecordStat ==
    /\ pc = "stat"
    /\ category_stats' = DictSet(category_stats, all_categories[i].slug,
                                 category_stat(all_categories[i], items, new_items))
    /\ trace' = Append(trace, <<"stat", i>>)
    /\ pc' = "sleep"
    /\ UNCHANGED <<document, all_categories, all_products, pass_vars, sweep_vars, report_vars,
                   other_scrapers, outcomes, first_sight,
                   sweep_outcomes, sweep_new>>

\* Sleep with a retry of a category that returned nothing
Sleep_Retry ==
    /\ pc = "sleep"
    /\ trace' = Append(trace, <<"sleep", i>>)
    /\ i' = IF items = <<>> THEN i ELSE i + 1
    /\ pc' = "loop"
    /\ UNCHANGED <<document, scraper_vars, items, new_items, total_requests,
                   successful_requests, categories_with_items, sweep_vars, report_vars,
                   other_scrapers, outcomes, first_sight, sweep_outcomes, sweep_new>>

\* Sleep without time.sleep(0.3)
Sleep_NoDelay ==
    /\ pc = "sleep"
    /\ i' = i + 1
    /\ pc' = "loop"
    /\ UNCHANGED <<document, scraper_vars, items, new_items, total_requests, successful_requests,
                   categories_with_items, sweep_vars, report_vars, other_scrapers, history>>

\* time.sleep(0.3), and on to the next category
Sleep ==
    /\ pc = "sleep"
    /\ trace' = Append(trace, <<"sleep", i>>)
    /\ i' = i + 1
    /\ pc' = "loop"
    /\ UNCHANGED <<document, scraper_vars, items, new_items, total_requests, successful_requests,
                   categories_with_items, sweep_vars, report_vars, other_scrapers, outcomes,
                   first_sight, sweep_outcomes, sweep_new>>

\* the summary scrape_all_products prints, and its return (its locals items and
\* new_items end with it)
Summary ==
    /\ pc = "summary"
    /\ items' = <<>>
    /\ new_items' = 0
    /\ pc' = "sweep_start"
    /\ UNCHANGED <<document, scraper_vars, i, total_requests, successful_requests,
                   categories_with_items, sweep_vars, report_vars, other_scrapers, history>>

\* supplement_with_search up to its loop
SweepStart ==
    /\ pc = "sweep_start"
    /\ initial_count' = Len(all_products)
    /\ q' = 1
    /\ pc' = "sweep"
    /\ UNCHANGED <<document, scraper_vars, pass_vars, report_vars, other_scrapers, history>>

\* the number of the response to the q-th search query
SearchReq == Len(all_categories) + q

\* items = self.search_items(query)
SearchItems ==
    /\ pc = "sweep"
    /\ \E outcome \in Outcomes, ids \in SearchIdLists(q, all_products) :
          /\ outcome # "ok" => ids = <<>>
          /\ items' = search_items(outcome, ItemsOf(ids, SearchReq))
          /\ sweep_outcomes' = Append(sweep_outcomes, [query |-> search_queries[q],
                                                         outcome |-> Classify(outcome)])
          /\ first_sight' = Sighted(first_sight, ids, SearchReq)
    /\ trace' = Append(trace, <<"search", q>>)
    /\ pc' = "sweep_merge"
    /\ UNCHANGED <<document, scraper_vars, i, new_items, total_requests, successful_requests,
                   categories_with_items, sweep_vars, report_vars, other_scrapers, outcomes,
                   sweep_new>>

\* SweepStops with the break never taken
SweepStops_Never(new) == FALSE

\* `if new_items == 0: break`
SweepStops(new) == new = 0

\* the merge of a query's items, and the decision to stop
SweepMerge ==
    /\ pc = "sweep_merge"
    /\ LET merged == merge_search(all_products, items)
       IN /\ all_products' = merged.store
          /\ new_items' = merged.new
          /\ sweep_new' = Append(sweep_new, merged.new)
          /\ pc' = IF SweepStops(merged.new) THEN "sweep_end" ELSE "sweep_sleep"
    /\ trace' = Append(trace, <<"sweep_merge", q>>)
    /\ UNCHANGED <<document, all_categories, category_stats, i, items, total_requests,
                   successful_requests, categories_with_items, sweep_vars, report_vars,
                   other_scrapers, outcomes, first_sight, sweep_outcomes>>

\* time.sleep(0.5), and on to the next query, if any
SweepSleep ==
    /\ pc = "sweep_sleep"
    /\ trace' = Append(trace, <<"sweep_sleep", q>>)
    /\ q' = q + 1
    /\ pc' = IF q + 1 > Len(search_queries) THEN "sweep_end" ELSE "sweep"
    /\ UNCHANGED <<document, scraper_vars, pass_vars, initial_count, report_vars, other_scrapers,
                   outcomes, first_sight, sweep_outcomes, sweep_new>>

\* the tail of supplement_with_search, and its return (its locals items and
\* new_items end with it)
SweepEnd ==
    /\ pc = "sweep_end"
    /\ items' = <<>>
    /\ new_items' = 0
    /\ pc' = "verify"
    /\ UNCHANGED <<document, scraper_vars, i, total_requests, successful_requests,
                   categories_with_items, sweep_vars, report_vars, other_scrapers, history>>

\* HitsCap with > for >=
HitsCap_Strict(stats) == stats.item_count > PageCap

\* `stats['item_count'] >= 500`
HitsCap(stats) == stats.item_count >= PageCap

\* verify_completeness: large_categories
LargeCategories(stats) ==
    [slug \in {x \in DOMAIN stats : HitsCap(stats[x])} |-> stats[slug]]

\* verify_completeness: `if large_categories:` prints the warning that some
\* categories might be capped ("Suspect"), else that coverage appears complete
\* ("Confident")
completeness_verdict(large) == IF DOMAIN large # {} THEN "Suspect" ELSE "Confident"

\* verify_completeness
VerifyCompleteness ==
    /\ pc = "verify"
    /\ large_categories' = LargeCategories(category_stats)
    /\ verdict' = completeness_verdict(LargeCategories(category_stats))
    /\ pc' = "display"
    /\ UNCHANGED <<document, scraper_vars, pass_vars, sweep_vars, saved, other_scrapers, history>>

\* display_sample(10): nothing to show for an empty store; name[:70] raises
\* TypeError when one of the products shown has None as its name
DisplaySample ==
    /\ pc = "display"
    /\ \E nameless \in BOOLEAN :
          /\ nameless => all_products # <<>>
          /\ pc' = IF nameless THEN "crashed" ELSE "save"
    /\ UNCHANGED <<document, scraper_vars, pass_vars, sweep_vars, report_vars, other_scrapers,
                   history>>

\* the files save_all_data writes, in order
SavedFiles(categories, products) ==
    (IF categories # <<>> THEN <<"bravo_categories_complete.json">> ELSE <<>>)
    \o (IF products # <<>>
        THEN <<"bravo_products_complete.json", "bravo_products_complete.csv">>
        ELSE <<>>)

\* what save_all_data puts in a file: the categories with category_stats, or
\* the products
DatasetOf(file) ==
    IF file = "bravo_categories_complete.json" THEN "categories_with_stats" ELSE "products"

\* SaveAllData under `if not large_categories:`
SaveAllData_UnlessSuspect ==
    /\ pc = "save"
    /\ saved' = IF verdict = "Suspect" THEN saved
                ELSE saved \o SavedFiles(all_categories, all_products)
    /\ pc' = "done"
    /\ UNCHANGED <<document, scraper_vars, pass_vars, sweep_vars, large_categories, verdict,
                   other_scrapers, history>>

\* save_all_data
SaveAllData ==
    /\ pc = "save"
    /\ saved' = saved \o SavedFiles(all_categories, all_products)
    /\ pc' = "done"
    /\ UNCHANGED <<document, scraper_vars, pass_vars, sweep_vars, large_categories, verdict,
                   other_scrapers, history>>

Next ==
    \/ GetCategories
    \/ MainCheck
    \/ ScrapeStart
    \/ LoopHead
    \/ GetCategoryItems
    \/ MergeCategory
    \/ RecordStat
    \/ Sleep
    \/ Summary
    \/ SweepStart
    \/ SearchItems
    \/ SweepMerge
    \/ SweepSleep
    \/ SweepEnd
    \/ VerifyCompleteness
    \/ DisplaySample
    \/ SaveAllData

Spec == Init /\ [][Next]_vars

\* ------------------------------------------------ the flatteners on their own

\* labels of the nodes of a document given to the flatteners: names that are
\* missing, empty, plain or holding a '/', ids that are missing or present
FlattenLabels ==
    {[id |-> "c", name |-> NoneStr, slug |-> "s"],
     [id |-> "c", name |-> <<>>, slug |-> "s"],
     [id |-> None, name |-> <<"a">>, slug |-> None],
     [id |-> "c", name |-> <<"a">>, slug |-> "s"],
     [id |-> "c", name |-> <<"x", "/", "y">>, slug |-> "s"]}

InitFlatten ==
    /\ \E n \in 0..MaxNodes :
          \E par \in ParentArrays(n), lab \in [1..n -> FlattenLabels] :
             /\ parent_of = par
             /\ tree = BuildForest(par, lab, 0)
    /\ InitScraper
    /\ NoAnalysis
    /\ NoFanOut

\* WoltComprehensiveScraper: self.all_categories = self._flatten_categories(...)
FlattenComprehensive ==
    /\ "comprehensive" \notin flattened
    /\ all_categories' = flatten_categories(tree, <<>>, 0)
    /\ flattened' = flattened \cup {"comprehensive"}
    /\ UNCHANGED <<document, pc, all_products, category_stats, pass_vars, sweep_vars,
                   report_vars, complete_categories, bravo_categories, bravo_category_map,
                   bravo_raised, complete_run, analysis, fan_out, history>>

\* WoltCompleteScraper: self.all_categories = self._flatten_categories(...)
FlattenComplete ==
    /\ "complete" \notin flattened
    /\ complete_categories' = flatten_categories_complete(tree, <<>>, 0)
    /\ flattened' = flattened \cup {"complete"}
    /\ UNCHANGED <<document, pc, scraper_vars, pass_vars, sweep_vars, report_vars,
                   bravo_categories, bravo_category_map, bravo_raised, complete_run, analysis, fan_out, history>>

\* WoltBravoScraper: self.all_categories = self.extract_all_categories(...)
ExtractAllCategories ==
    /\ "bravo" \notin flattened
    /\ LET r == extract_all_categories(tree, <<>>, bravo_category_map)
       IN /\ bravo_categories' = IF r.raised THEN bravo_categories ELSE r.cats
          /\ bravo_category_map' = r.cmap
          /\ bravo_raised' = r.raised
    /\ flattened' = flattened \cup {"bravo"}
    /\ UNCHANGED <<document, pc, scraper_vars, pass_vars, sweep_vars, report_vars,
                   complete_categories, complete_run, analysis, fan_out, history>>

NextFlatten ==
    \/ FlattenComprehensive
    \/ FlattenComplete
    \/ ExtractAllCategories

SpecFlatten == InitFlatten /\ [][NextFlatten]_vars

\* ------------------------------------------------------ an interrupted harvest

\* where main() can be when a KeyboardInterrupt is raised before save_all_data
Interruptible ==
    {"start", "main_check", "scrape", "loop", "fetch", "merge", "stat", "sleep", "summary",
     "sweep_start", "sweep", "sweep_merge", "sweep_sleep", "sweep_end", "verify", "display"}

\* the numbers of turns after which a merge loop over its is left: each of
\* the first MaxItems + 1, or all of them
InterruptPoints(its) == {k \in 0..Len(its) : k <= MaxItems + 1 \/ k = Len(its)}

\* the Product Store when the merge loop at hand is left after k of its turns
InterruptedStore(k) ==
    IF pc = "merge" /\ HasItems(items)
    THEN merge_category(all_products, SubSeq(items, 1, k)).store
    ELSE IF pc = "sweep_merge"
    THEN merge_search(all_products, SubSeq(items, 1, k)).store
    ELSE all_products

\* Interrupt with main's steps in `try: ... finally: scraper.save_all_data()`
Interrupt_ThenSave ==
    /\ pc \in Interruptible
    /\ \E k \in InterruptPoints(items) :
          /\ all_products' = InterruptedStore(k)
          /\ saved' = saved \o SavedFiles(all_categories, InterruptedStore(k))
    /\ pc' = "interrupted"
    /\ UNCHANGED <<document, all_categories, category_stats, pass_vars, sweep_vars,
                   large_categories, verdict, other_scrapers, history>>

\* SIGINT: KeyboardInterrupt is raised where main() is (inside a merge loop:
\* between two of its turns); no `except Exception` catches it and main has no
\* handler, so the process ends there
Interrupt ==
    /\ pc \in Interruptible
    /\ \E k \in InterruptPoints(items) : all_products' = InterruptedStore(k)
    /\ pc' = "interrupted"
    /\ UNCHANGED <<document, all_categories, category_stats, pass_vars, sweep_vars, report_vars,
                   other_scrapers, history>>

NextInterrupt ==
    \/ Next
    \/ Interrupt

SpecInterrupt == Init /\ [][NextInterrupt]_vars

\* --------------------------------------------- WoltCompleteScraper's harvest

\* labels of the nodes of the document WoltCompleteScraper harvests: names that
\* are missing, empty or plain
CompleteLabels == [id : {None}, name : {NoneStr, <<>>, <<"a">>}, slug : {"s1"}]

InitComplete ==
    /\ \E n \in 0..MaxCats :
          \E par \in ParentArrays(n), lab \in [1..n -> CompleteLabels] :
             /\ parent_of = par
             /\ tree = BuildForest(par, lab, 0)
    /\ InitScraper
    /\ NoAnalysis
    /\ NoFanOut

\* WoltCompleteScraper.search_items: the list it returns
complete_search_items(outcome, its) == IF outcome = "ok" THEN its ELSE <<>>

\* one turn of the loops that filter duplicates, on acc = [ids, products, new]
FilterItem(acc, item) ==
    IF Truthy(item.id) /\ item.id \notin acc.ids
    THEN [ids |-> acc.ids \cup {item.id},
          products |-> Append(acc.products, item),
          new |-> acc.new + 1]
    ELSE acc

\* such a loop over items[lo..hi], in order, from acc (the range is halved, and
\* the result of the first half is a value before the second half starts)
RECURSIVE FilterItems(_, _, _, _)
FilterItems(acc, its, lo, hi) ==
    IF lo > hi THEN acc
    ELSE IF lo = hi THEN FilterItem(acc, its[lo])
    ELSE LET mid == (lo + hi) \div 2
         IN CHOOSE r \in UNION {{FilterItems(left, its, mid + 1, hi)} :
                                   left \in {FilterItems(acc, its, lo, mid)}} : TRUE

\* the loop over a whole response
filter_duplicates(ids, products, its) ==
    FilterItems([ids |-> ids, products |-> products, new |-> 0], its, 1, Len(its))

\* main_categories = [c for c in self.all_categories if c['level'] == 0]
IsMainCategory(c) == c.level = 0
main_categories(categories) == SelectSeq(categories, IsMainCategory)

\* cat['name'].split()[0] raises on a name that is None (AttributeError) or
\* has no word (IndexError)
first_word_raises(name) == ~TruthyStr(name)

\* the number of the next response
NextResponse == Len(SelectSeq(ctrace, LAMBDA e : e[1] # "sleep")) + 1

\* WoltCompleteScraper.get_categories: the assortment request succeeds or fails
CompleteGetCategories ==
    /\ cpc = "start"
    /\ \E outcome \in {"ok", "exception"} :
          complete_categories' = IF outcome = "ok"
                                 THEN flatten_categories_complete(tree, <<>>, 0)
                                 ELSE complete_categories
    /\ ctrace' = Append(ctrace, <<"get_categories", 0>>)
    /\ cpc' = "scrape"
    /\ UNCHANGED <<document, pc, scraper_vars, pass_vars, sweep_vars, report_vars,
                   bravo_categories, bravo_category_map, bravo_raised, flattened, analysis,
                   fan_out, history, batch_num, product_ids, products_local, citems, cj, complete_products,
                   complete_saved>>

\* what the actions of WoltCompleteScraper's harvest all leave alone
complete_frame == <<document, pc, scraper_vars, pass_vars, sweep_vars, report_vars,
                    complete_categories, bravo_categories, bravo_category_map, bravo_raised,
                    flattened, analysis, fan_out, history>>

\* scrape_all_products up to its first loop
CompleteScrapeStart ==
    /\ cpc = "scrape"
    /\ products_local' = <<>>
    /\ product_ids' = {}
    /\ batch_num' = 0
    /\ cpc' = "batch"
    /\ UNCHANGED <<complete_frame, citems, cj, complete_products, complete_saved, ctrace>>

\* whether the batch at hand is counted and kept in the history: batch_num
\* counts the batches up to MaxBatches and stays there, and ctrace keeps the
\* calls and delays of the batches counted
BatchCounted == batch_num < MaxBatches

\* batch_num += 1; items = self.search_items(query="", limit=500); `if not
\* items: break`
SearchBatch ==
    /\ cpc = "batch"
    /\ batch_num' = IF BatchCounted THEN batch_num + 1 ELSE batch_num
    /\ \E outcome \in Outcomes, ids \in CategoryIdLists :
          /\ outcome # "ok" => ids = <<>>
          /\ citems' = complete_search_items(outcome, ItemsOf(ids, NextResponse))
          /\ cpc' = IF complete_search_items(outcome, ItemsOf(ids, NextResponse)) = <<>>
                    THEN "method2"
                    ELSE "batch_filter"
    /\ ctrace' = IF BatchCounted THEN Append(ctrace, <<"search_batch", batch_num + 1>>)
                 ELSE ctrace
    /\ UNCHANGED <<complete_frame, product_ids, products_local, cj, complete_products,
                   complete_saved>>

\* BatchEnds with the test dropped: one batch only
BatchEnds_Always(its) == TRUE

\* `if len(items) < 500: break`
BatchEnds(its) == Len(its) < BatchLimit

\* the filter of duplicates, all_products.extend(new_items), and the test of a
\* short page
BatchFilter ==
    /\ cpc = "batch_filter"
    /\ LET kept == filter_duplicates(product_ids, products_local, citems)
       IN /\ product_ids' = kept.ids
          /\ products_local' = kept.products
    /\ cpc' = IF BatchEnds(citems) THEN "method2" ELSE "batch_sleep"
    /\ UNCHANGED <<complete_frame, batch_num, citems, cj, complete_products, complete_saved,
                   ctrace>>

\* time.sleep(0.5), and the next batch
BatchSleep ==
    /\ cpc = "batch_sleep"
    /\ ctrace' = IF ctrace[Len(ctrace)] = <<"search_batch", batch_num>>
                 THEN Append(ctrace, <<"sleep", batch_num>>)
                 ELSE ctrace
    /\ cpc' = "batch"
    /\ UNCHANGED <<complete_frame, batch_num, product_ids, products_local, citems, cj,
                   complete_products, complete_saved>>

\* `if self.all_categories:` and main_categories
Method2Start ==
    /\ cpc = "method2"
    /\ IF complete_categories # <<>>
       THEN cj' = 1 /\ cpc' = "category_loop"
       ELSE cj' = cj /\ cpc' = "assign"
    /\ citems' = <<>>
    /\ UNCHANGED <<complete_frame, batch_num, product_ids, products_local, complete_products,
                   complete_saved, ctrace>>

\* the head of the loop over main_categories: the next category and its query
CategoryLoopHead ==
    /\ cpc = "category_loop"
    /\ cpc' = IF cj > Len(main_categories(complete_categories)) THEN "assign"
              ELSE IF first_word_raises(main_categories(complete_categories)[cj].name)
              THEN "crashed"
              ELSE "category_search"
    /\ UNCHANGED <<complete_frame, batch_num, product_ids, products_local, citems, cj,
                   complete_products, complete_saved, ctrace>>

\* items = self.search_items(query=category_query, limit=100)
CategorySearch ==
    /\ cpc = "category_search"
    /\ \E outcome \in Outcomes, ids \in IdLists :
          /\ outcome # "ok" => ids = <<>>
          /\ citems' = complete_search_items(outcome, ItemsOf(ids, NextResponse))
    /\ ctrace' = Append(ctrace, <<"search_category", cj>>)
    /\ cpc' = "category_filter"
    /\ UNCHANGED <<complete_frame, batch_num, product_ids, products_local, cj,
                   complete_products, complete_saved>>

\* the loop that appends the items not seen before
CategoryFilter ==
    /\ cpc = "category_filter"
    /\ LET kept == filter_duplicates(product_ids, products_local, citems)
       IN /\ product_ids' = kept.ids
          /\ products_local' = kept.products
    /\ cpc' = "category_sleep"
    /\ UNCHANGED <<complete_frame, batch_num, citems, cj, complete_products, complete_saved,
                   ctrace>>

\* time.sleep(0.3), and the next main category
CategorySleep ==
    /\ cpc = "category_sleep"
    /\ ctrace' = Append(ctrace, <<"sleep", cj>>)
    /\ cj' = cj + 1
    /\ cpc' = "category_loop"
    /\ UNCHANGED <<complete_frame, batch_num, product_ids, products_local, citems,
                   complete_products, complete_saved>>

\* self.all_products = all_products, and the return
CompleteAssign ==
    /\ cpc = "assign"
    /\ complete_products' = products_local
    /\ citems' = <<>>
    /\ cpc' = "display"
    /\ UNCHANGED <<complete_frame, batch_num, product_ids, products_local, cj, complete_saved,
                   ctrace>>

\* WoltCompleteScraper.display_sample(): name[:60] raises TypeError when one
\* of the products shown has None as its name
CompleteDisplaySample ==
    /\ cpc = "display"
    /\ \E nameless \in BOOLEAN :
          /\ nameless => complete_products # <<>>
          /\ cpc' = IF nameless THEN "crashed" ELSE "save"
    /\ UNCHANGED <<complete_frame, batch_num, product_ids, products_local, citems, cj,
                   complete_products, complete_saved, ctrace>>

\* the files WoltCompleteScraper.save_all_data writes
CompleteSavedFiles(categories, products) ==
    (IF categories # <<>> THEN <<"bravo_categories_complete.json">> ELSE <<>>)
    \o (IF products # <<>> THEN <<"bravo_products_raw.json", "bravo_products_raw.csv">> ELSE <<>>)

\* WoltCompleteScraper.save_all_data
CompleteSaveAllData ==
    /\ cpc = "save"
    /\ complete_saved' = complete_saved \o CompleteSavedFiles(complete_categories,
                                                             complete_products)
    /\ cpc' = "done"
    /\ UNCHANGED <<complete_frame, batch_num, product_ids, products_local, citems, cj,
                   complete_products, ctrace>>

NextComplete ==
    \/ CompleteGetCategories
    \/ CompleteScrapeStart
    \/ SearchBatch
    \/ BatchFilter
    \/ BatchSleep
    \/ Method2Start
    \/ CategoryLoopHead
    \/ CategorySearch
    \/ CategoryFilter
    \/ CategorySleep
    \/ CompleteAssign
    \/ CompleteDisplaySample
    \/ CompleteSaveAllData

SpecComplete == InitComplete /\ [][NextComplete]_vars

\* the script runs on: every call returns (search_items posts with timeout=30
\* and catches every exception) and every delay ends, so a step that can be
\* taken is taken
SpecCompleteFair == SpecComplete /\ WF_vars(NextComplete)

\* ------------------------------------------------- one harvest, of either script

\* one of the two scripts is run: the steps of one are taken only while the
\* other has not started
NextEither ==
    \/ cpc = "start" /\ Next
    \/ pc = "start" /\ NextComplete

SpecEither == Init /\ [][NextEither]_vars

\* ------------------------------------------- the analysis tools' normalization

\* products of a products file
MaxProducts == 2

\* a value of a JSON object under a key: the key is absent, or holds null, or
\* holds a number
JMissing == [kind |-> "missing"]
JNull == [kind |-> "null"]
JNum(v) == [kind |-> "number", value |-> v]

\* the prices a products file may hold under a key
PriceValues == {JMissing, JNull, JNum(0), JNum(450), JNum(600)}

\* A Python number is held as the fraction n/d (d > 0), so that x / 100 divides
\* and is not the identity; the rounding of floats is left out.
Rat(n, d) == [kind |-> "number", n |-> n, d |-> d]
\* Python's None as a number-valued field
NoNumber == [kind |-> "None"]

\* a < b, a - b (for a >= b), a / b (for b > 0), a * b
RECURSIVE GCD(_, _)
GCD(a, b) == IF b = 0 THEN a ELSE GCD(b, a % b)
\* the fraction n/d in lowest terms
Lowest(n, d) == Rat(n \div GCD(n, d), d \div GCD(n, d))
RatLess(a, b) == a.n * b.d < b.n * a.d
RatSub(a, b) == Lowest(a.n * b.d - b.n * a.d, a.d * b.d)
RatDiv(a, b) == Lowest(a.n * b.d, a.d * b.n)
RatMul(a, b) == Lowest(a.n * b.n, a.d * b.d)
\* a == b
RatEq(a, b) == a.kind = "number" /\ b.kind = "number" /\ a.n * b.d = b.n * a.d

\* truthiness of a number-valued field: None and 0 are falsy
TruthyNum(x) == x.kind = "number" /\ x.n # 0

\* p.get(key): the number, or None for null and for an absent key
JGet(v) == IF v.kind = "number" THEN Rat(v.value, 1) ELSE NoNumber

\* p.get(key, default)
JGetDefault(v, default) == IF v.kind = "missing" THEN default ELSE JGet(v)

\* ((original_price - price) / original_price) * 100
discount_of(original_price, price) ==
    RatMul(RatDiv(RatSub(original_price, price), original_price), Rat(100, 1))

\* the products of bravo_products_complete.json, as BravoMarketingAnalyzer
\* reads their prices
MarketingProducts == [price : PriceValues, original_price : PriceValues]

\* BravoMarketingAnalyzer.normalize_products: the price fields of the record it
\* makes of product p
marketing_normalize(p) ==
    LET price_cents == JGetDefault(p.price, Rat(0, 1))
        price == IF TruthyNum(price_cents) THEN RatDiv(price_cents, Rat(100, 1)) ELSE Rat(0, 1)
        original_price_cents == JGet(p.original_price)
        original_price == IF TruthyNum(original_price_cents)
                          THEN RatDiv(original_price_cents, Rat(100, 1))
                          ELSE NoNumber
    IN [price |-> price,
        original_price |-> original_price,
        discount_percent |->
            IF TruthyNum(original_price) /\ TruthyNum(price) /\ RatLess(price, original_price)
            THEN discount_of(original_price, price)
            ELSE NoNumber]

\* the prices WoltAnalyzer may find under one of its price keys
AnalyzerPriceValues == {JMissing, JNull, JNum(0), JNum(450)}

\* the products WoltAnalyzer keeps (_is_product: a price under one at least of
\* the keys price, baseprice and baseprice_cents), with original_price_cents
AnalyzerProducts ==
    {p \in [baseprice_cents : AnalyzerPriceValues, baseprice : AnalyzerPriceValues,
            price : AnalyzerPriceValues, original_price_cents : PriceValues] :
        \E k \in {"baseprice_cents", "baseprice", "price"} : p[k] # JMissing}

\* WoltAnalyzer.normalize_products: product['baseprice_cents'] / 100 raises
\* TypeError when the key holds null
analyzer_raises(p) == p.baseprice_cents = JNull

\* WoltAnalyzer.normalize_products: the price fields of the record it makes of
\* product p
analyzer_normalize(p) ==
    LET price == IF p.baseprice_cents # JMissing
                 THEN RatDiv(JGet(p.baseprice_cents), Rat(100, 1))
                 ELSE IF p.baseprice # JMissing THEN JGet(p.baseprice)
                 ELSE IF p.price # JMissing THEN JGet(p.price)
                 ELSE NoNumber
        original_price == IF TruthyNum(JGet(p.original_price_cents))
                          THEN RatDiv(JGetDefault(p.original_price_cents, Rat(0, 1)),
                                      Rat(100, 1))
                          ELSE NoNumber
    IN [price |-> price,
        original_price |-> original_price,
        discount |->
            IF TruthyNum(original_price) /\ TruthyNum(price) /\ RatLess(price, original_price)
            THEN discount_of(original_price, price)
            ELSE NoNumber]

\* the lists of at most MaxProducts products of a set
ProductLists(S) == UNION {[1..k -> S] : k \in 0..MaxProducts}

\* an analysis tool has loaded its products file
InitNormalize ==
    /\ tree = <<>>
    /\ parent_of = <<>>
    /\ InitScraper
    /\ \/ tool = "marketing" /\ self_products \in ProductLists(MarketingProducts)
       \/ tool = "analyze" /\ self_products \in ProductLists(AnalyzerProducts)
    /\ normalized = <<>>
    /\ apc = "loaded"
    /\ NoFanOut

normalize_frame == <<document, pc, scraper_vars, pass_vars, sweep_vars, report_vars,
                     complete_categories, bravo_categories, bravo_category_map, bravo_raised,
                     flattened, complete_run, fan_out, history, tool, self_products>>

\* BravoMarketingAnalyzer.normalize_products
MarketingNormalizeProducts ==
    /\ tool = "marketing"
    /\ apc = "loaded"
    /\ normalized' = [k \in 1..Len(self_products) |-> marketing_normalize(self_products[k])]
    /\ apc' = "normalized"
    /\ UNCHANGED normalize_frame

\* WoltAnalyzer.normalize_products
AnalyzerNormalizeProducts ==
    /\ tool = "analyze"
    /\ apc = "loaded"
    /\ IF \E k \in 1..Len(self_products) : analyzer_raises(self_products[k])
       THEN /\ normalized' = normalized
            /\ apc' = "crashed"
       ELSE /\ normalized' = [k \in 1..Len(self_products) |->
                                 analyzer_normalize(self_products[k])]
            /\ apc' = "normalized"
    /\ UNCHANGED normalize_frame

NextNormalize ==
    \/ MarketingNormalizeProducts
    \/ AnalyzerNormalizeProducts

SpecNormalize == InitNormalize /\ [][NextNormalize]_vars

\* ------------------------------------- category fetches fanned out (spec, 5.)

\* The repository fetches one category at a time. The extension the
\* specification allows runs the fetches concurrently and serializes the
\* merges: the fetches below start and complete in any order, at most
\* MaxParallel at a time, and each merge is the body of scrape_all_products'
\* `if items:` for one arrived list, run to its end before another starts.
MaxParallel == 2

fan_out_frame == <<document, pc, all_categories, i, items, new_items, total_requests,
                   sweep_vars, report_vars, complete_categories, bravo_categories,
                   bravo_category_map, bravo_raised, flattened, complete_run, analysis,
                   sweep_outcomes, sweep_new>>

\* the fetch of a category starts, once main() has the categories
ParallelStart ==
    /\ pc = "scrape"
    /\ \E c \in 1..Len(all_categories) :
          /\ c \notin inflight
          /\ c \notin DOMAIN arrived
          /\ Cardinality(inflight) < MaxParallel
          /\ inflight' = inflight \cup {c}
    /\ UNCHANGED <<fan_out_frame, all_products, category_stats, successful_requests,
                   categories_with_items, arrived, merge_order, new_total, history>>

\* get_category_items of a category under way returns
ParallelComplete ==
    /\ \E c \in inflight, outcome \in Outcomes, ids \in IdLists :
          /\ outcome # "ok" => ids = <<>>
          /\ arrived' = DictSet(arrived, c,
                                category_items(outcome, ItemsOf(ids, c),
                                               all_categories[c].slug, all_categories[c].name))
          /\ outcomes' = Append(outcomes, [index |-> c,
                                           slug |-> all_categories[c].slug,
                                           outcome |-> Classify(outcome),
                                           returned |-> Len(ids)])
          /\ inflight' = inflight \ {c}
    /\ UNCHANGED <<fan_out_frame, all_products, category_stats, successful_requests,
                   categories_with_items, merge_order, new_total, first_sight, trace>>

\* category c has been merged
Merged(c) == \E k \in 1..Len(merge_order) : merge_order[k] = c

\* the single writer takes an arrived list: the body of `if items:`, whole
ParallelMerge ==
    /\ \E c \in DOMAIN arrived :
          /\ ~Merged(c)
          /\ IF HasItems(arrived[c])
             THEN LET merged == merge_category(all_products, arrived[c])
                  IN /\ successful_requests' = successful_requests + 1
                     /\ categories_with_items' = categories_with_items + 1
                     /\ all_products' = merged.store
                     /\ new_total' = new_total + merged.new
                     /\ category_stats' = DictSet(category_stats, all_categories[c].slug,
                                                  category_stat(all_categories[c], arrived[c],
                                                                merged.new))
             ELSE UNCHANGED <<successful_requests, categories_with_items, all_products,
                              new_total, category_stats>>
          /\ merge_order' = Append(merge_order, c)
          /\ first_sight' = Sighted(first_sight,
                                    [p \in 1..Len(arrived[c]) |-> arrived[c][p].id], c)
    /\ UNCHANGED <<fan_out_frame, inflight, arrived, outcomes, trace>>

NextParallel ==
    \/ GetCategories
    \/ MainCheck
    \/ ParallelStart
    \/ ParallelComplete
    \/ ParallelMerge

SpecParallel == Init /\ [][NextParallel]_vars

\* ------------------------------------------------------------------ claims

\* where main() can be once the category pass has ended
PostPass == {"summary", "sweep_start", "sweep", "sweep_merge", "sweep_sleep", "sweep_end",
             "verify", "display", "save", "done"}

\* where main() can be once the sweep has ended
PostSweep == {"verify", "display", "save", "done"}

\* a fetched list waits to be merged
MergePending == pc \in {"merge", "sweep_merge"}

\* C1: the Product Store holds exactly one product per distinct id: no id is
\* stored twice, every entry is stored under the id of its payload, and once a
\* fetched list is merged the stored ids are exactly the ids sighted so far,
\* whatever the number of responses or positions that held them.
C1_OneProductPerId ==
    /\ \A a, b \in 1..Len(all_products) :
          a # b => all_products[a].key # all_products[b].key
    /\ \A a \in 1..Len(all_products) :
          /\ all_products[a].val.id = all_products[a].key
          /\ all_products[a].key \in DOMAIN first_sight
    /\ ~MergePending => StoreKeys(all_products) = DOMAIN first_sight

\* C1 witness: the second category's list, just merged, holds one id at two
\* positions, and that id was stored from the first category's response
C1_Witness ==
    /\ pc = "stat"
    /\ i = 2
    /\ Len(items) = 2
    /\ items[1].id = items[2].id
    /\ \E a \in 1..Len(all_products) :
          all_products[a].key = items[1].id /\ all_products[a].val.raw[1] = 1

\* C2: first-writer-wins: every stored product carries the payload of the first
\* sighting of its id, and, when that sighting was a category response, the slug
\* and name of that category, whatever later categories or queries returned.
C2_FirstWriterWins ==
    \A a \in 1..Len(all_products) :
       LET e == all_products[a]
           req == e.val.raw[1]
       IN /\ e.key \in DOMAIN first_sight
          /\ e.val.raw = first_sight[e.key]
          /\ req <= Len(all_categories) =>
                /\ e.val.category_slug = all_categories[req].slug
                /\ e.val.category_name = all_categories[req].name

\* C2 witness: the second category, with another slug, returned an id the first
\* category had returned, and the merge is over
C2_Witness ==
    /\ pc = "stat"
    /\ i = 2
    /\ all_categories[1].slug # all_categories[2].slug
    /\ \E a \in 1..Len(all_products), p \in 1..Len(items) :
          /\ items[p].id = all_products[a].key
          /\ items[p].category_slug = all_categories[2].slug
          /\ all_products[a].val.category_slug = all_categories[1].slug

\* ids a probe item may carry: none, the ids of the category responses, the
\* first query's own id, and every id stored
ProbeIds == (0..FreshId(1)) \cup StoreKeys(all_products)

\* C3: merging an item whose id is stored leaves the store as it is and counts 0
\* new items; merging one raw item twice adds at most one product in total, the
\* second merge adding none; and the list just merged, merged again, is a no-op.
C3_MergeIdempotent ==
    /\ \A x \in ProbeIds :
          LET item == RawItem(x, 0, 1)
              once == merge_category(all_products, <<item>>)
              twice == merge_category(once.store, <<item>>)
          IN /\ HasKey(all_products, x) =>
                   once = [store |-> all_products, new |-> 0]
             /\ twice = [store |-> once.store, new |-> 0]
             /\ Len(twice.store) <= Len(all_products) + 1
             /\ once.new + twice.new <= 1
    /\ pc = "stat" => merge_category(all_products, items) = [store |-> all_products, new |-> 0]

\* C3 witness: a category's list whose only id was stored before has been merged
\* and counted 0 new items
C3_Witness ==
    /\ pc = "stat"
    /\ new_items = 0
    /\ \E p \in 1..Len(items) : Truthy(items[p].id)
    /\ Len(all_products) = 1
    /\ all_products[1].val.raw[1] < i

\* C4: the new-item count of a category's merge is the growth of the Product
\* Store in that merge, the stat recorded for the category holds that count and
\* the length of the fetched list, and no recorded stat has new_items above
\* item_count.
C4_Step ==
    /\ pc = "merge" /\ pc' = "stat" => Len(all_products') = Len(all_products) + new_items'
    /\ pc = "stat" =>
          /\ all_products' = all_products
          /\ category_stats'[all_categories[i].slug].new_items = new_items
          /\ category_stats'[all_categories[i].slug].item_count = Len(items)
    /\ \A slug \in DOMAIN category_stats' :
          category_stats'[slug].new_items <= category_stats'[slug].item_count

C4_NewCountIsGrowth == [][C4_Step]_vars

\* C4 witness: a stat is recorded for a list of which some items were new and
\* some were not
C4_Witness ==
    /\ pc = "sleep"
    /\ all_categories[i].slug \in DOMAIN category_stats
    /\ category_stats[all_categories[i].slug].new_items > 0
    /\ category_stats[all_categories[i].slug].new_items
          < category_stats[all_categories[i].slug].item_count
    /\ category_stats[all_categories[i].slug].item_count = Len(items)

\* the category fetches made so far, as a set of history entries
Fetches == {outcomes[k] : k \in 1..Len(outcomes)}

\* C5: error isolation: a category fetch that fails does not abort the harvest
\* (the harvest is never aborted at a category that has been fetched); every
\* category after the failed one that the loop has passed has been fetched and
\* every id of its response is stored; and the pass ends only past the last
\* category.
C5_ErrorIsolation ==
    /\ pc = "crashed" => \A f \in Fetches : f.index # i
    /\ \A f \in Fetches :
          f.outcome = "TransportError" =>
             \A j \in (f.index + 1)..(i - 1) :
                /\ \E g \in Fetches : g.index = j
                /\ \A x \in DOMAIN first_sight :
                      first_sight[x][1] = j => HasKey(all_products, x)
    /\ pc \in PostPass => i = Len(all_categories) + 1

\* C5 witness: the harvest is done, the first category's fetch failed, and a
\* product of the second category's response is stored
C5_Witness ==
    /\ pc = "done"
    /\ \E f \in Fetches : f.index = 1 /\ f.outcome = "TransportError"
    /\ \E a \in 1..Len(all_products) : all_products[a].val.raw[1] = 2

\* C6 as the specification states it: after the category pass every category
\* queried has its CategoryStat (whose outcome would tell a failure from a
\* success).
C6_StatPerQueriedCategory ==
    pc \in PostPass =>
       \A f \in Fetches : f.slug \in DOMAIN category_stats

\* C6 as amended: after the category pass category_stats has an entry for a slug
\* exactly when a fetch for that slug returned at least one item; a fetch that
\* failed, was not found or returned no item records nothing, no entry holds an
\* outcome, and large_categories only flags slugs for which a successful fetch
\* returned PageCap items or more.
C6_StatOnlyForItems ==
    pc \in PostPass =>
       /\ DOMAIN category_stats = {f.slug : f \in {g \in Fetches : g.returned > 0}}
       /\ \A slug \in DOMAIN category_stats :
             /\ "outcome" \notin DOMAIN category_stats[slug]
             /\ \E f \in Fetches :
                   /\ f.slug = slug
                   /\ f.outcome = "Success"
                   /\ f.returned = category_stats[slug].item_count
       /\ \A slug \in DOMAIN large_categories :
             \E f \in Fetches :
                f.slug = slug /\ f.outcome = "Success" /\ f.returned >= PageCap

\* C6 witness: verify_completeness has run after a pass in which one category
\* failed and has no stat, and another returned a capped page and is flagged
C6_Witness ==
    /\ pc = "save"
    /\ \E f \in Fetches : f.outcome = "TransportError" /\ f.slug \notin DOMAIN category_stats
    /\ \E f \in Fetches : f.outcome = "Success" /\ f.slug \in DOMAIN large_categories

\* the steps of the category pass
IsPassStep(e) == e[1] \in {"fetch", "merge", "stat", "sleep"}
PassTrace == SelectSeq(trace, IsPassStep)

\* the steps of the sweep
IsSweepStep(e) == e[1] \in {"search", "sweep_merge", "sweep_sleep"}
SweepTrace == SelectSeq(trace, IsSweepStep)

\* two successive steps of one category
InOrder(a, b) ==
    \/ a = "fetch" /\ b \in {"merge", "sleep"}
    \/ a = "merge" /\ b = "stat"
    \/ a = "stat" /\ b = "sleep"

\* C7: the k-th fetch of the pass is for the k-th category of the flattened
\* document, with its slug, so that no category is fetched twice or retried;
\* the steps of a category come in the order fetch, merge, stat (merge and stat
\* only for a list with items), then the delay, and all of them before the next
\* category's fetch; and the pass ends only when every category was fetched.
C7_PassOrder ==
    LET flat == flatten_categories(tree, <<>>, 0)
        steps == PassTrace
    IN /\ \A k \in 1..Len(outcomes) :
             /\ outcomes[k].index = k
             /\ k <= Len(flat)
             /\ outcomes[k].slug = flat[k].slug
       /\ Len(steps) > 0 => steps[1] = <<"fetch", 1>>
       /\ \A p \in 1..(Len(steps) - 1) :
             LET a == steps[p]
                 b == steps[p + 1]
             IN \/ a[2] = b[2] /\ InOrder(a[1], b[1])
                \/ b[2] = a[2] + 1 /\ a[1] = "sleep" /\ b[1] = "fetch"
       /\ Cardinality({p \in 1..Len(steps) : steps[p][1] = "fetch"}) = Len(outcomes)
       /\ pc \in PostPass => Len(outcomes) = Len(flat)

\* C7 witness: a pass over two categories has ended, the first with a merge and
\* a stat, the second with nothing to merge
C7_Witness ==
    /\ pc = "summary"
    /\ PassTrace = <<<<"fetch", 1>>, <<"merge", 1>>, <<"stat", 1>>, <<"sleep", 1>>,
                     <<"fetch", 2>>, <<"sleep", 2>>>>

\* C8: the sweep issues the queries of its list in order, one at a time; no
\* query is issued after one that yielded 0 new items; and the sweep ends only
\* after a query that yielded 0 new items or after the last query of the list.
C8_SweepTermination ==
    /\ Len(sweep_outcomes) <= Len(search_queries)
    /\ \A k \in 1..Len(sweep_outcomes) : sweep_outcomes[k].query = search_queries[k]
    /\ Len(sweep_new) \in {Len(sweep_outcomes), Len(sweep_outcomes) - 1}
    /\ \A k \in 1..Len(sweep_new) : sweep_new[k] = 0 => Len(sweep_outcomes) = k
    /\ pc \in PostSweep =>
          /\ Len(sweep_new) = Len(sweep_outcomes)
          /\ Len(sweep_new) > 0
          /\ \/ sweep_new[Len(sweep_new)] = 0
             \/ Len(sweep_new) = Len(search_queries)

\* C8 witness: the sweep has ended after its third query, the first to yield 0
\* new items
C8_Witness ==
    /\ pc = "verify"
    /\ Len(sweep_outcomes) = 3
    /\ sweep_new[1] > 0 /\ sweep_new[2] > 0 /\ sweep_new[3] = 0

\* the other case of C8: every query yielded new items and the whole list was
\* issued
C8_WholeList ==
    /\ pc = "verify"
    /\ Len(sweep_outcomes) = Len(search_queries)
    /\ \A k \in 1..Len(sweep_new) : sweep_new[k] > 0

C9_Confident ==
    /\ verdict = "Confident"
    /\ DOMAIN category_stats # {}

\* the ancestors of node v of the document
RECURSIVE Ancestors(_, _)
Ancestors(par, v) == IF par[v] = 0 THEN {} ELSE {par[v]} \cup Ancestors(par, par[v])

\* the nodes of the subtree below node v
Descendants(par, v) == {w \in 1..Len(par) : v \in Ancestors(par, w)}

\* the records of out are the nodes of the document in pre-order: every node has
\* one record; the records of a node's descendants fill the places right after
\* the node's own; and siblings (nodes of one parent, in source order) keep
\* their order
IsPreOrder(out, par) ==
    /\ Len(out) = Len(par)
    /\ \A v \in 1..Len(par) : \E p \in 1..Len(out) : out[p].description = v
    /\ \A p \in 1..Len(out) :
          LET v == out[p].description
          IN /\ p + Cardinality(Descendants(par, v)) <= Len(out)
             /\ {out[r].description : r \in (p + 1)..(p + Cardinality(Descendants(par, v)))}
                   = Descendants(par, v)
    /\ \A p, r \in 1..Len(out) :
          LET v == out[p].description
              w == out[r].description
          IN par[v] = par[w] /\ v < w => p < r

\* C10: each flattener emits the records of the document in pre-order: a parent
\* is immediately followed by the records of its whole subtree, and siblings
\* keep their source order.
C10_PreOrder ==
    /\ "comprehensive" \in flattened => IsPreOrder(all_categories, parent_of)
    /\ "complete" \in flattened => IsPreOrder(complete_categories, parent_of)
    /\ "bravo" \in flattened /\ ~bravo_raised => IsPreOrder(bravo_categories, parent_of)

\* C10 witness: the three flatteners have run on two roots of which the first
\* has a child, the document's third node, emitted ahead of the second root
C10_Witness ==
    /\ flattened = {"comprehensive", "complete", "bravo"}
    /\ ~bravo_raised
    /\ parent_of = <<0, 0, 1>>
    /\ [p \in 1..3 |-> all_categories[p].description] = <<1, 3, 2>>
    /\ [p \in 1..3 |-> bravo_categories[p].description] = <<1, 3, 2>>
    /\ [p \in 1..3 |-> complete_categories[p].description] = <<1, 3, 2>>

\* the depth of node v of the document, a root being at depth 0
Depth(par, v) == Cardinality(Ancestors(par, v))

\* every node of the document is named "a": no name is missing, empty or holds
\* a '/'
PlainDocument ==
    LET flat == flatten_categories(tree, <<>>, 0)
    IN \A p \in 1..Len(flat) : flat[p].name = <<"a">>

\* the records of out that were made from the ancestors of node v
AncestorRecords(out, par, v) ==
    {p \in 1..Len(out) : out[p].description \in Ancestors(par, v)}

\* every record of out has the depth of its node as level, and as many '/' in
\* its path
LevelIsDepth(out, par) ==
    \A p \in 1..Len(out) :
       /\ out[p].level = Depth(par, out[p].description)
       /\ out[p].level = CountSlash(out[p].path)

\* the parent_path of every record made from a node that is not a root is the
\* path of exactly one record made from an ancestor of the node
ParentPathIsAncestorPath(out, par) ==
    \A p \in 1..Len(out) :
       par[out[p].description] # 0 =>
          Cardinality({r \in AncestorRecords(out, par, out[p].description) :
                          out[r].path = out[p].parent_path}) = 1

\* C11 as the specification states it, on documents whose nodes are all plainly
\* named: every record emitted by _flatten_categories and by
\* extract_all_categories has level = the depth of its node = the number of '/'
\* in its path, and the parent_path of a non-root record (a field only
\* _flatten_categories writes) is the path of exactly one ancestor record.
C11_LevelIsDepth ==
    PlainDocument =>
       /\ "comprehensive" \in flattened =>
             /\ LevelIsDepth(all_categories, parent_of)
             /\ ParentPathIsAncestorPath(all_categories, parent_of)
       /\ "bravo" \in flattened /\ ~bravo_raised =>
             LevelIsDepth(bravo_categories, parent_of)

\* a step that applies the flattener called who
Flattens(who) == who \notin flattened /\ who \in flattened'

\* C12 as the specification states it: a flatten call changes no state of the
\* scraper object (the list it returns is assigned by its caller).
C12_Step_Pure ==
    flattened' # flattened =>
       /\ all_products' = all_products
       /\ category_stats' = category_stats
       /\ bravo_category_map' = bravo_category_map

\* C12 as the specification states it, of every step: no flatten call changes
\* the state of a scraper object
C12_FlattenPure == [][C12_Step_Pure]_vars

\* C12 as amended: each flattener, called again on the same document in the
\* state its first call left, returns the same list (or raises again);
\* _flatten_categories changes no state of its scraper; extract_all_categories
\* also sets self.category_map[id] to each record it builds, the last record of
\* an id staying, and a second call leaves category_map as the first left it.
C12_Step ==
    /\ Flattens("comprehensive") =>
          /\ flatten_categories(tree', <<>>, 0) = all_categories'
          /\ UNCHANGED <<all_products, category_stats, bravo_category_map>>
    /\ Flattens("complete") =>
          /\ flatten_categories_complete(tree', <<>>, 0) = complete_categories'
          /\ UNCHANGED <<all_products, category_stats, bravo_category_map>>
    /\ Flattens("bravo") =>
          LET again == extract_all_categories(tree', <<>>, bravo_category_map')
          IN /\ again.raised = bravo_raised'
             /\ ~bravo_raised' => again.cats = bravo_categories'
             /\ again.cmap = bravo_category_map'
             /\ ~bravo_raised' =>
                   /\ DOMAIN bravo_category_map'
                         = {bravo_categories'[p].id : p \in 1..Len(bravo_categories')}
                   /\ \A p \in 1..Len(bravo_categories') :
                         (\A r \in (p + 1)..Len(bravo_categories') :
                             bravo_categories'[r].id # bravo_categories'[p].id)
                         => bravo_category_map'[bravo_categories'[p].id]
                               = bravo_categories'[p]
             /\ UNCHANGED <<all_products, category_stats>>

\* C12 as amended, of every step: flattening is deterministic, and only
\* extract_all_categories writes state, self.category_map
C12_FlattenDeterministic == [][C12_Step]_vars

\* C12 witness: the flatteners have run on a document of three nodes, two of
\* them with the same id, and extract_all_categories has written category_map
C12_Witness ==
    /\ flattened = {"comprehensive", "complete", "bravo"}
    /\ ~bravo_raised
    /\ Len(bravo_categories) = 3
    /\ Len(all_categories) = 3
    /\ Cardinality(DOMAIN bravo_category_map) = 2

\* the nodes of a nested document, each with the fields it came with
RECURSIVE NodeSet(_)
NodeSet(forest) ==
    UNION {{[description |-> forest[k].description,
             id |-> forest[k].id,
             name |-> forest[k].name,
             slug |-> forest[k].slug]}
           \cup NodeSet(forest[k].subcategories) : k \in 1..Len(forest)}

\* what a record says of the node it was made from
NodeOfRecord(rec) ==
    [description |-> rec.description, id |-> rec.id, name |-> rec.name, slug |-> rec.slug]

\* C13 as the specification states it: a node that has no name or no identifier
\* is emitted with empty string fields, so that no record holds None.
C13_EmptyStringFields ==
    "comprehensive" \in flattened =>
       /\ Len(all_categories) = Len(parent_of)
       /\ \A p \in 1..Len(all_categories) :
             /\ all_categories[p].name # NoneStr
             /\ all_categories[p].id # None
             /\ all_categories[p].path # NoneStr

\* C13 as amended: _flatten_categories emits one record per node of the
\* document and no other (as many records as nodes, no node twice), each with
\* the id, name and slug of its node; a node without identifier or name is
\* emitted too, the missing field being None, and a missing name makes the path
\* None at a root (or under a parent whose path is empty or None) and
\* "<parent path>/None" elsewhere.
C13_EveryNodeOnce ==
    "comprehensive" \in flattened =>
       /\ Len(all_categories) = Len(parent_of)
       /\ Len(all_categories) = Cardinality(NodeSet(tree))
       /\ {NodeOfRecord(all_categories[p]) : p \in 1..Len(all_categories)} = NodeSet(tree)
       /\ \A p, r \in 1..Len(all_categories) :
             all_categories[p].description = all_categories[r].description => p = r
       /\ \A p \in 1..Len(all_categories) :
             LET rec == all_categories[p]
             IN rec.name = NoneStr =>
                   rec.path = IF TruthyStr(rec.parent_path)
                              THEN rec.parent_path \o <<"/", "N", "o", "n", "e">>
                              ELSE NoneStr

\* C13 witness: _flatten_categories has emitted three records, one for a node
\* without name that is not a root and one for a node without identifier
C13_Witness ==
    /\ "comprehensive" \in flattened
    /\ Len(all_categories) = 3
    /\ \E p, r \in 1..3 :
          /\ all_categories[p].name = NoneStr
          /\ all_categories[p].level > 0
          /\ all_categories[p].path = <<"a", "/", "N", "o", "n", "e">>
          /\ all_categories[r].id = None

\* C14 as the specification states it: a category record with no name does not
\* abort the category pass: the harvest is never aborted at a category, and once
\* the loop is past a nameless category that category has been fetched.
C14_NamelessTolerated ==
    /\ pc # "crashed"
    /\ \A k \in 1..Len(all_categories) :
          all_categories[k].name = NoneStr /\ k < i => \E f \in Fetches : f.index = k

\* the truthy ids of a list of items
IdsOf(its) == {its[p].id : p \in 1..Len(its)} \ {0}

\* the ids stored from responses before response number req
StoredBefore(req) ==
    {all_products[a].key : a \in {b \in 1..Len(all_products) : all_products[b].val.raw[1] < req}}

\* C15: no item without id is ever stored; once a category's list or a query's
\* list is merged, every id of the list is stored, those after an item without
\* id too, the new-item count is the number of ids of the list that were not
\* stored before, so that items without id count for nothing, and the merge
\* has raised no error; and an item without id put in front of any item changes
\* neither the ids the merge stores nor its count.
C15_UnidentifiableDropped ==
    /\ \A a \in 1..Len(all_products) : Truthy(all_products[a].key)
    /\ pc = "stat" =>
          /\ IdsOf(items) \subseteq StoreKeys(all_products)
          /\ new_items = Cardinality(IdsOf(items) \ StoredBefore(i))
    /\ pc \in {"sweep_sleep", "sweep_end"} /\ Len(sweep_new) = q =>
          /\ IdsOf(items) \subseteq StoreKeys(all_products)
          /\ new_items = Cardinality(IdsOf(items) \ StoredBefore(SearchReq))
    /\ pc = "crashed" => \A f \in Fetches : f.index # i
    /\ \A x \in 0..FreshId(1) :
          LET with == merge_category(all_products, ItemsOf(<<0, x>>, 0))
              without == merge_category(all_products, ItemsOf(<<x>>, 0))
              swith == merge_search(all_products, ItemsOf(<<0, x>>, 0))
              swithout == merge_search(all_products, ItemsOf(<<x>>, 0))
          IN /\ with.new = without.new
             /\ StoreKeys(with.store) = StoreKeys(without.store)
             /\ swith.new = swithout.new
             /\ StoreKeys(swith.store) = StoreKeys(swithout.store)

\* C15 witness: a category's list of an item without id followed by an item
\* with a new id has been merged: one new item, stored from the second place
C15_Witness ==
    /\ pc = "stat"
    /\ Len(items) = 2
    /\ items[1].id = 0
    /\ Truthy(items[2].id)
    /\ new_items = 1
    /\ \E a \in 1..Len(all_products) :
          all_products[a].key = items[2].id /\ all_products[a].val.raw = <<i, 2>>

\* the same in the sweep: a query answered by an item without id only
C15_SweepWitness ==
    /\ pc = "sweep_end"
    /\ Len(items) = 1
    /\ items[1].id = 0
    /\ new_items = 0

\* C16 as the specification states it: every product of the final Product
\* Store carries a provenance, that of its category or that of its query.
C16_EveryProductHasProvenance ==
    pc = "done" =>
       \A a \in 1..Len(all_products) :
          /\ all_products[a].val.category_slug # Missing
          /\ all_products[a].val.category_name # MissingStr

\* C16 as amended: a product first inserted by the category pass carries the
\* slug and name of the category whose response first held its id; a product
\* first inserted by the sweep carries no provenance at all (search_items
\* annotates nothing: the product has neither _category_slug nor
\* _category_name, and nothing names its query).
C16_ProvenanceOfPassOnly ==
    \A a \in 1..Len(all_products) :
       LET val == all_products[a].val
           req == val.raw[1]
       IN IF req <= Len(all_categories)
          THEN /\ val.category_slug = all_categories[req].slug
               /\ val.category_name = all_categories[req].name
               /\ \E f \in Fetches : f.index = req /\ f.outcome = "Success"
          ELSE /\ DOMAIN val = {"id", "raw", "category_slug", "category_name"}
               /\ val.category_slug = Missing
               /\ val.category_name = MissingStr

\* C16 witness: the harvest is done with a product inserted by the category
\* pass and a product inserted by the sweep
C16_Witness ==
    /\ pc = "done"
    /\ \E a, b \in 1..Len(all_products) :
          /\ all_products[a].val.raw[1] <= Len(all_categories)
          /\ all_products[a].val.category_slug = all_categories[all_products[a].val.raw[1]].slug
          /\ all_products[b].val.raw[1] > Len(all_categories)
          /\ all_products[b].val.category_slug = Missing

\* the network calls and the delays of WoltComprehensiveScraper's harvest
IsPacingStep(e) == e[1] \in {"get_categories", "fetch", "sleep", "search", "sweep_sleep"}
PacingTrace == SelectSeq(trace, IsPacingStep)

\* a network call
IsCall(e) == e[1] \in {"get_categories", "fetch", "search", "search_batch", "search_category"}

\* C17 as the specification states it, for the sweep: once the sweep has ended,
\* every query it issued was followed by a delay, whatever the query yielded.
C17_DelayAfterEveryQuery ==
    pc \in PostSweep =>
       \A p \in 1..Len(PacingTrace) :
          PacingTrace[p][1] = "search" =>
             /\ p < Len(PacingTrace)
             /\ PacingTrace[p + 1] = <<"sweep_sleep", PacingTrace[p][2]>>

\* C17 as amended. WoltComprehensiveScraper: the assortment request is followed
\* at once by the first category fetch; every category fetch, whatever its
\* outcome, is followed by a delay before the next call; a sweep query is
\* followed by a delay exactly when it added a new product, the query that adds
\* none ending the sweep with no delay and no further call. WoltCompleteScraper:
\* the assortment request is followed at once by the first batch; a batch is
\* followed by a delay and the next batch, or, with no delay, by the first
\* per-category search; every per-category search is followed by a delay.
C17_Pacing ==
    LET steps == PacingTrace
    IN /\ \A p \in 1..Len(steps) :
             LET e == steps[p]
                 last == p = Len(steps)
             IN /\ e[1] = "get_categories" =>
                      p = 1 /\ (~last => steps[p + 1] = <<"fetch", 1>>)
                /\ e[1] = "fetch" =>
                      /\ ~last => steps[p + 1] = <<"sleep", e[2]>>
                      /\ last => pc \in {"merge", "stat", "sleep", "crashed"}
                /\ e[1] = "sleep" /\ ~last =>
                      steps[p + 1] \in {<<"fetch", e[2] + 1>>, <<"search", 1>>}
                /\ e[1] = "search" =>
                      /\ ~last => steps[p + 1] = <<"sweep_sleep", e[2]>>
                      /\ e[2] <= Len(sweep_new) =>
                            \/ sweep_new[e[2]] = 0 <=> last
                            \/ last /\ pc = "sweep_sleep"
                /\ e[1] = "sweep_sleep" /\ ~last =>
                      steps[p + 1] = <<"search", e[2] + 1>>
       /\ \A p \in 1..Len(ctrace) :
             LET e == ctrace[p]
                 last == p = Len(ctrace)
             IN /\ e[1] = "get_categories" =>
                      p = 1 /\ (~last => ctrace[p + 1] = <<"search_batch", 1>>)
                /\ e[1] = "search_batch" /\ ~last =>
                      \/ /\ ctrace[p + 1] = <<"sleep", e[2]>>
                         /\ p + 1 < Len(ctrace) /\ e[2] < MaxBatches =>
                               ctrace[p + 2] = <<"search_batch", e[2] + 1>>
                      \/ ctrace[p + 1] = <<"search_category", 1>>
                /\ e[1] = "search_category" =>
                      /\ ~last => ctrace[p + 1] = <<"sleep", e[2]>>
                      /\ last => cpc \in {"category_filter", "category_sleep"}

\* C17 witness: a harvest of WoltComprehensiveScraper is done in which a
\* category fetch failed and was followed by its delay, and the sweep ended at
\* its second query, the last step of the harvest's calls and delays
C17_Witness ==
    /\ pc = "done"
    /\ \E f \in Fetches : f.outcome = "TransportError"
    /\ sweep_new = <<1, 0>>
    /\ PacingTrace[Len(PacingTrace)] = <<"search", 2>>
    /\ \E p \in 1..Len(PacingTrace) : PacingTrace[p][1] = "sleep"

\* the same for WoltCompleteScraper: a harvest is done in which the last batch
\* was followed at once by the first per-category search
C17_CompleteWitness ==
    /\ cpc = "done"
    /\ \E p \in 1..(Len(ctrace) - 1) :
          ctrace[p][1] = "search_batch" /\ ctrace[p + 1][1] = "search_category"
    /\ \E p \in 1..(Len(ctrace) - 1) :
          ctrace[p][1] = "search_batch" /\ ctrace[p + 1][1] = "sleep"

\* the files written that hold dataset d
FilesOf(d) == {p \in 1..Len(saved) : DatasetOf(saved[p]) = d}

\* C18 as the specification states it: when the harvest is done, each of the
\* three datasets (the categories with their stats, the products, the
\* HarvestReport) has been written exactly once.
C18_ThreeDatasetsPersisted ==
    pc = "done" =>
       \A d \in {"categories_with_stats", "products", "harvest_report"} :
          Cardinality(FilesOf(d)) = 1

\* C18 as amended: nothing is written before save_all_data, which runs once,
\* after verify_completeness and whatever its verdict, in a harvest that is not
\* aborted before; it writes the categories with category_stats to one file,
\* and, only when the Product Store is not empty, the products to two files
\* (JSON, then CSV); no file holds the report of the harvest or its verdict.
C18_SaveOnceWhateverVerdict ==
    /\ pc # "done" => saved = <<>>
    /\ pc = "done" =>
          /\ verdict \in {"Suspect", "Confident"}
          /\ saved = SavedFiles(all_categories, all_products)
          /\ Cardinality(FilesOf("categories_with_stats")) = 1
          /\ Cardinality(FilesOf("products")) = IF all_products # <<>> THEN 2 ELSE 0
          /\ FilesOf("harvest_report") = {}
          /\ \A a, b \in 1..Len(saved) : saved[a] = saved[b] => a = b

\* C18 witness: the harvest is done with the verdict Suspect, and the three
\* files are written
C18_Witness ==
    /\ pc = "done"
    /\ verdict = "Suspect"
    /\ saved = <<"bravo_categories_complete.json", "bravo_products_complete.json",
                 "bravo_products_complete.csv">>

\* the other case of C18: the harvest is done with an empty Product Store, and
\* only the categories are written
C18_EmptyStore ==
    /\ pc = "done"
    /\ verdict = "Confident"
    /\ all_products = <<>>
    /\ saved = <<"bravo_categories_complete.json">>

\* the Product Store holds one complete product per id: no id twice, every
\* product under its own id, with the payload of the first sighting of its id
\* and, from a category response, that category's slug and name
StoreConsistent ==
    /\ \A a, b \in 1..Len(all_products) :
          all_products[a].key = all_products[b].key => a = b
    /\ \A a \in 1..Len(all_products) :
          LET e == all_products[a]
          IN /\ Truthy(e.key)
             /\ e.val.id = e.key
             /\ e.key \in DOMAIN first_sight
             /\ e.val.raw = first_sight[e.key]
             /\ e.val.raw[1] <= Len(all_categories) =>
                   /\ e.val.category_slug = all_categories[e.val.raw[1]].slug
                   /\ e.val.category_name = all_categories[e.val.raw[1]].name

\* the number of the last response received
LastResponse == Len(outcomes) + Len(sweep_outcomes)

\* the number of a sweep response counts on from the categories'
ResponseOf(sight) ==
    IF sight[1] <= Len(all_categories) THEN sight[1]
    ELSE Len(outcomes) + (sight[1] - Len(all_categories))

\* C19 as the specification states it: the partial results of an interrupted
\* harvest are not lost: what the Product Store held is in the products file.
C19_PartialResultsKept ==
    pc = "interrupted" /\ all_products # <<>> =>
       \E p \in 1..Len(saved) : DatasetOf(saved[p]) = "products"

\* C19 as amended: wherever the harvest is interrupted, also inside a merge
\* loop, the Product Store is consistent and holds every id of the responses
\* received before the last one; but the interrupt ends the process: nothing
\* has been written and nothing is written.
C19_ConsistentButLost ==
    /\ StoreConsistent
    /\ \A x \in DOMAIN first_sight :
          ResponseOf(first_sight[x]) < LastResponse => HasKey(all_products, x)
    /\ pc = "interrupted" => saved = <<>>

\* C19 witness: the harvest was interrupted inside the merge of the second
\* category's list, after the first of its two new items was stored
C19_Witness ==
    /\ pc = "interrupted"
    /\ i = 2
    /\ Len(items) = 2
    /\ items[1].id # items[2].id
    /\ Truthy(items[2].id)
    /\ HasKey(all_products, items[1].id)
    /\ ~HasKey(all_products, items[2].id)
    /\ \E a \in 1..Len(all_products) : all_products[a].val.raw[1] = 1
    /\ saved = <<>>

\* place a comes before place b in the responses of a harvest
Before(a, b) == a[1] < b[1] \/ (a[1] = b[1] /\ a[2] < b[2])

\* the product of id x as a function of what a harvest is given, the category
\* list cats and the responses, of which sights holds the first place of every
\* id: the payload of that place, with the slug and name of the category that
\* place belongs to
ProductOf(x, cats, sights) ==
    [id |-> x,
     raw |-> sights[x],
     category_slug |-> IF sights[x][1] <= Len(cats) THEN cats[sights[x][1]].slug ELSE Missing,
     category_name |-> IF sights[x][1] <= Len(cats) THEN cats[sights[x][1]].name
                       ELSE MissingStr]

\* store is the Product Store those inputs determine: the ids of the responses,
\* each once, in the order of their first places, each with its ProductOf
IsStoreOf(store, cats, sights) ==
    /\ Len(store) = Cardinality(DOMAIN sights)
    /\ \A a \in 1..Len(store) :
          /\ store[a].key \in DOMAIN sights
          /\ store[a].val = ProductOf(store[a].key, cats, sights)
    /\ \A a \in 1..(Len(store) - 1) : Before(store[a].val.raw, store[a + 1].val.raw)

\* C20: the Product Store is a function of the category tree and of the
\* responses received: once the last response is merged it is the store that
\* the flattened tree and the first places of the ids in the responses
\* determine, so that two harvests given the same tree and the same responses
\* end with the same ids and, for every id, the same provenance fields.
C20_RunDeterminism ==
    /\ pc # "start" /\ all_categories # <<>> =>
          all_categories = flatten_categories(tree, <<>>, 0)
    /\ ~MergePending => IsStoreOf(all_products, all_categories, first_sight)

\* C20 witness: the harvest is done with three products, first sighted in the
\* first category, in the second category and in the sweep, the second category
\* having returned the first one's id again
C20_Witness ==
    /\ pc = "done"
    /\ Len(all_products) = 3
    /\ all_products[1].val.raw[1] = 1
    /\ all_products[2].val.raw = <<2, 2>>
    /\ all_products[3].val.raw[1] > Len(all_categories)
    /\ all_categories[1].slug # all_categories[2].slug

\* the price of the k-th product as its file holds it, in the unit
\* normalize_products gives it: of the marketing tool, the cents under 'price'
\* over 100; of WoltAnalyzer, the price it found under one of its three keys
PresentPrice(k) ==
    IF tool = "marketing"
    THEN (IF self_products[k].price.kind = "number"
          THEN Rat(self_products[k].price.value, 100)
          ELSE NoNumber)
    ELSE normalized[k].price

\* the original price of the k-th product as its file holds it
PresentOriginal(k) ==
    LET v == IF tool = "marketing" THEN self_products[k].original_price
             ELSE self_products[k].original_price_cents
    IN IF v.kind = "number" THEN Rat(v.value, 100) ELSE NoNumber

\* the discount normalize_products gave the k-th product
DiscountOf(k) ==
    IF tool = "marketing" THEN normalized[k].discount_percent ELSE normalized[k].discount

\* C21: normalization yields the discount (original - price) / original * 100
\* exactly when an original price and a price are both present and original >
\* price, also when the present price is 0 (then 100), and 25 for price 450 and
\* original 600; in every other case it yields no discount value.
C21_DiscountExact ==
    apc = "normalized" =>
       \A k \in 1..Len(normalized) :
          LET price == PresentPrice(k)
              original == PresentOriginal(k)
          IN IF price.kind = "number" /\ original.kind = "number" /\ RatLess(price, original)
             THEN /\ RatEq(DiscountOf(k),
                           Rat(100 * (original.n * price.d - price.n * original.d),
                               original.n * price.d))
                  /\ price = Rat(450, 100) /\ original = Rat(600, 100) =>
                        RatEq(DiscountOf(k), Rat(25, 1))
             ELSE DiscountOf(k) = NoNumber

\* the category fetches that succeeded with at least one item
FetchesWithItems == {k \in 1..Len(outcomes) :
                        outcomes[k].outcome = "Success" /\ outcomes[k].returned > 0}

\* C22: after the category pass the aggregates are exact: the categories
\* visited (total_requests) are the flattened categories; categories_with_items
\* is the number of categories whose fetch succeeded with at least one item,
\* and is the number of CategoryStats recorded, the count verify_completeness
\* takes (len(self.category_stats)); and the total of unique products is the
\* size of the Product Store, one entry per id.
C22_AggregatesExact ==
    pc \in PostPass =>
       /\ total_requests = Len(flatten_categories(tree, <<>>, 0))
       /\ categories_with_items = Cardinality(FetchesWithItems)
       /\ categories_with_items = Cardinality(DOMAIN category_stats)
       /\ Len(all_products) = Cardinality(StoreKeys(all_products))

\* C23: with the category fetches under way concurrently and the merges
\* serialized, after every merge and for every order of the fetches' returns
\* and of the merges, the Product Store holds exactly one product per id of the
\* lists merged so far, and the sum of the new-item counts the merges returned
\* is the size of the store.
C23_SerializedMergeSafe ==
    /\ \A a, b \in 1..Len(all_products) :
          all_products[a].key = all_products[b].key => a = b
    /\ StoreKeys(all_products)
          = UNION {IdsOf(arrived[merge_order[k]]) : k \in 1..Len(merge_order)}
    /\ new_total = Len(all_products)

\* C23 witness: the second category's fetch returned first and was merged
\* first, the first category's list held the same id and another, and the
\* store holds the shared id once, from the second category
C23_Witness ==
    /\ merge_order = <<2, 1>>
    /\ outcomes[1].index = 2
    /\ Len(all_products) = 2
    /\ new_total = 2
    /\ all_products[1].val.category_slug = all_categories[2].slug
    /\ all_categories[1].slug # all_categories[2].slug
    /\ \E p \in 1..Len(arrived[1]) : arrived[1][p].id = all_products[1].key

\* the same while fetches overlap: one list is merged while the other
\* category's fetch is still under way
C23_MergeDuringFetch ==
    /\ inflight = {1}
    /\ merge_order = <<2>>
    /\ new_total = 2

\* C24: in the sweep a query whose fetch fails is skipped and the sweep goes on
\* with the next query: once the sweep has ended, every failed query but the
\* last of the list was followed by another query, and a sweep that ended
\* before the last query of the list ended at a query that was answered and
\* yielded 0 new items.
C24_FailedQuerySkipped ==
    pc \in PostSweep =>
       /\ \A k \in 1..Len(sweep_outcomes) :
             sweep_outcomes[k].outcome = "TransportError" /\ k < Len(search_queries)
                => Len(sweep_outcomes) > k
       /\ Len(sweep_outcomes) < Len(search_queries) =>
             /\ sweep_outcomes[Len(sweep_outcomes)].outcome = "Success"
             /\ sweep_new[Len(sweep_new)] = 0

\* the ids with which the responses received so far identify an item
ReceivedIds == DOMAIN first_sight

\* C25: when the harvest ends, by its last step or by an abort, the ids of the
\* Product Store are the ids of the items of all the responses received, those
\* of the categories and those of the sweep's queries up to the one that
\* stopped it: the store has one entry for each of them, made from an item of
\* a response received, and no other entry.
C25_StoreIsUnionOfResponses ==
    pc \in {"done", "crashed"} =>
       /\ StoreKeys(all_products) = ReceivedIds
       /\ Len(all_products) = Cardinality(ReceivedIds)
       /\ \A a \in 1..Len(all_products) :
             LET place == all_products[a].val.raw
             IN /\ place[1] \in 1..(Len(all_categories) + Len(sweep_outcomes))
                /\ place[1] <= Len(all_categories) =>
                      \E f \in Fetches : f.index = place[1] /\ place[2] <= f.returned
                /\ place[1] > Len(all_categories) =>
                      sweep_outcomes[place[1] - Len(all_categories)].outcome = "Success"

\* C25 witness: the harvest is done; the categories' responses held two ids
\* and an item without id, the first query one more id, and the second query,
\* which stopped the sweep, only an id already stored
C25_Witness ==
    /\ pc = "done"
    /\ Len(all_products) = 3
    /\ sweep_new = <<1, 0>>
    /\ \E f \in Fetches : f.returned = 2 /\ f.index = 1
    /\ all_products[1].val.raw = <<1, 2>>
    /\ all_products[2].val.raw[1] = 2
    /\ all_products[3].val.raw[1] = Len(all_categories) + 1
    /\ first_sight[all_products[1].key] = <<1, 2>>

\* the fields of the records of out that the three flatteners all write
CommonFields(out) ==
    [p \in 1..Len(out) |->
        [id |-> out[p].id, name |-> out[p].name, slug |-> out[p].slug, path |-> out[p].path,
         level |-> out[p].level]]

\* C26: the three flatteners are equivalent: on every category document,
\* extract_all_categories and the two _flatten_categories return (none of them
\* raising) the same sequence of records with the same id, name, slug, path and
\* level.
C26_FlattenersEquivalent ==
    flattened = {"comprehensive", "complete", "bravo"} =>
       /\ ~bravo_raised
       /\ CommonFields(all_categories) = CommonFields(complete_categories)
       /\ CommonFields(bravo_categories) = CommonFields(all_categories)

\* scrape_all_products of WoltCompleteScraper has returned or raised
ScrapeOver == cpc \in {"display", "save", "done", "crashed"}

\* C27: WoltCompleteScraper.scrape_all_products terminates whatever the search
\* endpoint answers: every run of the script leaves its batch loop and the
\* loop over the main categories, also when every batch is a full page.
C27_ScrapeTerminates == <>ScrapeOver

\* the sum of new_items over the entries of stats whose slugs are in slugs
RECURSIVE SumNewItems(_, _)
SumNewItems(stats, slugs) ==
    IF slugs = {} THEN 0
    ELSE LET slug == CHOOSE x \in slugs : TRUE
         IN stats[slug].new_items + SumNewItems(stats, slugs \ {slug})

\* the category pass has ended and the sweep has merged nothing yet
PassJustEnded == pc \in {"summary", "sweep_start", "sweep"} /\ sweep_new = <<>>

\* C28: after the category pass and before the sweep, the sum of new_items
\* over the entries of category_stats is the number of products in the Product
\* Store, whatever the category list, two categories of one slug included.
C28_StatsSumIsStoreSize ==
    PassJustEnded =>
       SumNewItems(category_stats, DOMAIN category_stats) = Len(all_products)

\* C29: whenever a category response of the harvest held PageCap items or
\* more, verify_completeness gives the truncation warning (Suspect), whatever
\* the pass did after that response, a later category of the same slug
\* included.
C29_CappedResponseIsReported ==
    verdict # "none" /\ (\E f \in Fetches : f.returned >= PageCap) => verdict = "Suspect"

\* C30: when the category-tree request fails or the tree holds no category,
\* the harvest stops at main's test: the only call made is the assortment
\* request, no category is fetched and no query issued, the Product Store is
\* empty and no file is written; and main leaves there for no other reason.
C30_NoCategoriesStopsHarvest ==
    /\ pc # "start" /\ all_categories = <<>> =>
          /\ pc \in {"main_check", "exit_no_categories"}
          /\ trace = <<<<"get_categories", 0>>>>
          /\ outcomes = <<>>
          /\ sweep_outcomes = <<>>
          /\ all_products = <<>>
          /\ category_stats = EmptyDict
          /\ saved = <<>>
    /\ pc = "exit_no_categories" => all_categories = <<>>

\* C30 witness: the venue has categories, the assortment request failed, and
\* main has returned
C30_Witness ==
    /\ pc = "exit_no_categories"
    /\ tree # <<>>
    /\ all_categories = <<>>
    /\ saved = <<>>

\* the other case of C30: the request succeeded and the tree held no category
C30_EmptyTree ==
    /\ pc = "exit_no_categories"
    /\ tree = <<>>

====
